---- MODULE Spec2Model ----
(***************************************************************************)
(* The execution frame of vm/src/frame.rs: operand stack, block stack,     *)
(* instruction pointer and the VM's exception stack, driven by run/throw.  *)
(* The code object is an input: the instruction found at the pointer is    *)
(* drawn from the instruction set at every fetch, so every instruction     *)
(* sequence is covered.  VM callbacks (__enter__, __exit__, name lookup)   *)
(* answer nondeterministically.                                            *)
(***************************************************************************)
EXTENDS Integers, Sequences, FiniteSets, TLC

\* ---------------------------------------------------------------- bounds
\* operand stack and block stack together
MaxFrame == 3
CodeLen == 2

MaxExc == 1

\* --------------------------------------------------------------- objects
None == "None"
Managers == {"cm"}
Raisable == {"e1"}
ExitError == "x"
\* The objects the code loads, and the one __enter__ returns (itself), are
\* context managers; the other objects on the stack are exceptions.
Consts == Managers
EnterResult(cm) == cm
\* vm.new_exception(runtime_error, "No active exception to reraise"): one of the
\* exceptions an instruction makes and raises. It is raised only while the
\* exception register is empty, so the step that raises it holds no other
\* exception it could be taken for.
NoActiveException == CHOOSE e \in Raisable : TRUE
\* the objects objiter::get_next_object can step
Iterators == Consts
\* the objects vm.extract_elements gives the elements of, and those elements
Tuples == {"t1", "t2", "t3"}
elements_of == [t \in Tuples |-> CASE t = "t1" -> <<"a">>
                                   [] t = "t2" -> <<"a", "b">>
                                   [] t = "t3" -> <<"a", "b", "e1">>]
NotIterableError == "TypeError(not iterable)"
ValueError == "ValueError"
\* the objects that have a __setitem__ method
Dicts == {"d"}
NoSetItemError == "AttributeError(__setitem__)"
\* classes: one that derives from BaseException and one that does not
ExceptionClasses == {"E"}
OtherClasses == {"C"}
\* vm.new_empty_exception(exc_type)
new_empty_exception(exc_type) == exc_type \o "()"
\* objtype::isinstance(obj, base_exception_type)
BaseExceptions ==
    Raisable \cup {ExitError} \cup {new_empty_exception(c) : c \in ExceptionClasses}
\* vm.new_type_error of get_exception: for a class that does not derive from
\* BaseException, and for an object that is neither exception nor class
NotDerivedTypeError == "TypeError(not derived)"
NoExceptionTypeError == "TypeError(no exception)"
TypeErrors == {NotDerivedTypeError, NoExceptionTypeError}
ExitOutcome == {"truthy", "falsy", "raise"}

\* What the __exit__ call made for the With block at each block-stack position
\* answers: an input of the step.
Oracle(bs) == [{i \in 1 .. Len(bs) : bs[i].typ.kind = "With"} -> ExitOutcome]

\* exc.class() of the exception handed to __exit__
TypeOf(e) == "type(" \o e \o ")"

\* code.label_map: label -> instruction index
Labels == 0 .. 2
label_map == [l \in Labels |-> (l + 1) % CodeLen]

\* generators: the frame being driven (current), the other frame of the same VM
\* while it is suspended, and for each entry of the VM's exception register the
\* frame that pushed it (owners)
VARIABLES stack, blocks, lasti, exceptions, status, result, open_withs, generators

vars == <<stack, blocks, lasti, exceptions, status, result, open_withs, generators>>

\* --------------------------------------------------------- block records
Loop(start, end) ==
    [kind |-> "Loop", start |-> start, end |-> end, handler |-> 0, context_manager |-> None]
TryExcept(handler) ==
    [kind |-> "TryExcept", start |-> 0, end |-> 0, handler |-> handler, context_manager |-> None]
With(end, cm) ==
    [kind |-> "With", start |-> 0, end |-> end, handler |-> 0, context_manager |-> cm]
ExceptHandler ==
    [kind |-> "ExceptHandler", start |-> 0, end |-> 0, handler |-> 0, context_manager |-> None]

Block(typ, level) == [typ |-> typ, level |-> level]

\* ------------------------------------------------------- history records
Event(k, obj, arg, level, before, after) ==
    [k |-> k, obj |-> obj, arg |-> arg, level |-> level, before |-> before, after |-> after]

Note(f, e) == [f EXCEPT !.log = Append(@, e)]

\* The frame (and the VM state it touches) as one value threaded through the
\* helpers below.
Frame ==
    [stack |-> stack, blocks |-> blocks, lasti |-> lasti, exceptions |-> exceptions,
     open_withs |-> open_withs, log |-> <<>>, panic |-> FALSE]

Panic(f) == [f EXCEPT !.panic = TRUE]

\* Vec::truncate
Truncate(s, n) == IF n < Len(s) THEN SubSeq(s, 1, n) ELSE s

\* ------------------------------------------------------ stack primitives
push_value(f, obj) ==
    IF f.panic THEN f ELSE [f EXCEPT !.stack = Append(@, obj)]

last_value(f) == IF Len(f.stack) = 0 THEN None ELSE f.stack[Len(f.stack)]

pop_value(f) ==
    IF f.panic THEN f
    ELSE IF Len(f.stack) = 0 THEN Panic(f)
    ELSE [f EXCEPT !.stack = SubSeq(@, 1, Len(@) - 1)]

push_block(f, typ) ==
    IF f.panic THEN f
    ELSE [f EXCEPT !.blocks = Append(@, Block(typ, Len(f.stack)))]

current_block(f) == f.blocks[Len(f.blocks)]

\* faulty variant: the block is removed but the operand stack is left as it is
pop_block_keeping_stack(f) ==
    IF f.panic \/ Len(f.blocks) = 0 THEN f
    ELSE LET block == current_block(f)
             g == [f EXCEPT !.blocks = SubSeq(@, 1, Len(@) - 1)]
         IN  Note(g, Event("pop_block", block.typ.kind, <<>>, block.level,
                           Len(f.stack), Len(g.stack)))

pop_block(f) ==
    IF f.panic \/ Len(f.blocks) = 0 THEN f
    ELSE LET block == current_block(f)
             g == [f EXCEPT !.blocks = SubSeq(@, 1, Len(@) - 1),
                            !.stack = Truncate(@, block.level)]
         IN  Note(g, Event("pop_block", block.typ.kind, <<>>, block.level,
                           Len(f.stack), Len(g.stack)))

\* faulty variant: the label itself is taken for the target index
jump_to_label(f, label) ==
    IF f.panic THEN f
    ELSE Note([f EXCEPT !.lasti = label], Event("jump", "label", <<>>, label, 0, 0))

\* faulty variant: the target is added to the pointer the fetch left
jump_relative(f, label) ==
    IF f.panic THEN f
    ELSE Note([f EXCEPT !.lasti = @ + label_map[label]], Event("jump", "label", <<>>, label, 0, 0))

jump(f, label) ==
    IF f.panic THEN f
    ELSE Note([f EXCEPT !.lasti = label_map[label]], Event("jump", "label", <<>>, label, 0, 0))

fetch_instruction(f) == [f EXCEPT !.lasti = @ + 1]

\* ------------------------------------------------- VM exception register
vm_push_exception(f, exc) ==
    IF f.panic THEN f
    ELSE Note([f EXCEPT !.exceptions = Append(@, exc)],
              Event("push_exception", exc, <<>>, 0, 0, 0))

\* vm.pop_exception().expect("Should have exception in stack")
vm_pop_exception(f) ==
    IF f.panic THEN f
    ELSE IF Len(f.exceptions) = 0 THEN Panic(f)
    ELSE Note([f EXCEPT !.exceptions = SubSeq(@, 1, Len(@) - 1)],
              Event("pop_exception", f.exceptions[Len(f.exceptions)], <<>>, 0, 0, 0))

\* vm.current_exception()
vm_current_exception(f) == f.exceptions[Len(f.exceptions)]

\* ------------------------------------------------------- __exit__ calls
call_context_manager_exit_no_exception(f, cm) ==
    IF f.panic THEN f
    ELSE Note([f EXCEPT !.open_withs = @ - 1],
              Event("__exit__", cm, <<None, None, None>>, 0, 0, 0))

\* faulty variant: __exit__ is told nothing about the exception being unwound
call_context_manager_exit_blind(f, cm, exc) ==
    call_context_manager_exit_no_exception(f, cm)

call_context_manager_exit(f, cm, exc) ==
    IF f.panic THEN f
    ELSE Note([f EXCEPT !.open_withs = @ - 1],
              Event("__exit__", cm, <<TypeOf(exc), exc, None>>, 0, 0, 0))

Outcome(f, err) == [f |-> f, err |-> err]

\* ----------------------------------------------------------- unwinding
RECURSIVE unwind_blocks(_, _)
unwind_blocks(f, o) ==
    IF f.panic \/ Len(f.blocks) = 0 THEN Outcome(f, None)
    ELSE LET block == current_block(f)
             g == pop_block(f)
         IN  CASE block.typ.kind = "Loop" -> unwind_blocks(g, o)
               [] block.typ.kind = "TryExcept" -> unwind_blocks(g, o)
               [] block.typ.kind = "With" ->
                    (LET h == call_context_manager_exit_no_exception(g, block.typ.context_manager)
                     IN  IF o[Len(f.blocks)] = "raise"
                         THEN Outcome(h, ExitError)
                         ELSE unwind_blocks(h, o))
               [] block.typ.kind = "ExceptHandler" -> unwind_blocks(vm_pop_exception(g), o)

RECURSIVE unwind_loop(_, _)
unwind_loop(f, o) ==
    IF f.panic THEN f
    ELSE IF Len(f.blocks) = 0 THEN Panic(f)
    ELSE LET block == current_block(f)
         IN  CASE block.typ.kind = "Loop" -> f
               [] block.typ.kind = "TryExcept" -> unwind_loop(pop_block(f), o)
               [] block.typ.kind = "With" ->
                    (LET h == call_context_manager_exit_no_exception(f, block.typ.context_manager)
                     IN  IF o[Len(f.blocks)] = "raise"
                         THEN Panic(h)
                         ELSE unwind_loop(pop_block(h), o))
               [] block.typ.kind = "ExceptHandler" ->
                    unwind_loop(pop_block(vm_pop_exception(f)), o)

RECURSIVE unwind_exception(_, _, _)
unwind_exception(f, o, exc) ==
    IF f.panic \/ Len(f.blocks) = 0 THEN Outcome(f, exc)
    ELSE LET block == current_block(f)
             g == pop_block(f)
         IN  CASE block.typ.kind = "TryExcept" ->
                    Outcome(jump(vm_push_exception(push_value(push_block(g, ExceptHandler), exc),
                                                   exc),
                                 block.typ.handler),
                            None)
               [] block.typ.kind = "With" ->
                    (LET h == call_context_manager_exit(g, block.typ.context_manager, exc)
                         r == o[Len(f.blocks)]
                     IN  IF r = "truthy" THEN Outcome(jump(h, block.typ.end), None)
                         ELSE IF r = "falsy" THEN unwind_exception(h, o, exc)
                         ELSE Outcome(h, ExitError))
               [] block.typ.kind = "Loop" -> unwind_exception(g, o, exc)
               [] block.typ.kind = "ExceptHandler" ->
                    unwind_exception(vm_pop_exception(g), o, exc)

\* ------------------------------------------------- instruction dispatch
Res(f, kind, val) == [f |-> f, kind |-> kind, val |-> val]

Continue_(f) == Res(f, "none", None)

\* Each executor gets the frame after fetch_instruction has advanced the pointer.
Instruction_LoadConst(f, ins, o) == Continue_(push_value(f, ins.value))

\* load_name: a name the scope does not hold is a name error
Instruction_LoadName(f, ins, o) ==
    IF ins.found THEN Continue_(push_value(f, ins.value))
    ELSE Res(f, "err", ins.exc)

Instruction_Pop(f, ins, o) == Continue_(pop_value(f))

Instruction_Pass(f, ins, o) == Continue_(f)

Instruction_Jump(f, ins, o) == Continue_(jump(f, ins.target))

\* faulty variant: an error raised by __exit__ while returning is dropped
Instruction_ReturnValue_ignoring_exit(f, ins, o) ==
    Res(unwind_blocks(pop_value(f), o).f, "return", last_value(f))

Instruction_ReturnValue(f, ins, o) ==
    LET value == last_value(f)
        u == unwind_blocks(pop_value(f), o)
    IN  IF u.err # None THEN Res(u.f, "err", u.err)
        ELSE Res(u.f, "return", value)

\* faulty variant: the yielded value stays on the operand stack
Instruction_YieldValue_keeping(f, ins, o) ==
    IF Len(f.stack) = 0 THEN Continue_(Panic(f)) ELSE Res(f, "yield", last_value(f))

Instruction_YieldValue(f, ins, o) == Res(pop_value(f), "yield", last_value(f))

Instruction_SetupLoop(f, ins, o) == Continue_(push_block(f, Loop(ins.start, ins.end)))

Instruction_SetupExcept(f, ins, o) == Continue_(push_block(f, TryExcept(ins.handler)))

\* __enter__ fails when the popped object is no context manager or when it raises
\* faulty variant: the With block is pushed while the manager is still on the stack
Instruction_SetupWith_block_first(f, ins, o) ==
    LET context_manager == last_value(f)
        g == pop_value(f)
    IN  IF g.panic THEN Continue_(g)
        ELSE IF context_manager \notin Managers \/ ~ins.enter_ok
        THEN Res(g, "err", ins.exc)
        ELSE Continue_(push_value(
                 pop_value(push_block(Note([f EXCEPT !.open_withs = @ + 1],
                                           Event("__enter__", context_manager, <<>>, 0, 0, 0)),
                                      With(ins.end, context_manager))),
                 EnterResult(context_manager)))

Instruction_SetupWith(f, ins, o) ==
    LET context_manager == last_value(f)
        g == pop_value(f)
    IN  IF g.panic THEN Continue_(g)
        ELSE IF context_manager \notin Managers \/ ~ins.enter_ok
        THEN Res(g, "err", ins.exc)
        ELSE Continue_(push_value(
                 push_block(Note([g EXCEPT !.open_withs = @ + 1],
                                 Event("__enter__", context_manager, <<>>, 0, 0, 0)),
                            With(ins.end, context_manager)),
                 EnterResult(context_manager)))

\* faulty variant: __exit__ is called while the With block is still on the block stack
Instruction_CleanupWith_exit_first(f, ins, o) ==
    IF Len(f.blocks) = 0 THEN Continue_(Panic(f))
    ELSE LET block == current_block(f)
         IN  IF block.typ.kind # "With" THEN Continue_(Panic(pop_block(f)))
             ELSE IF ins.end # block.typ.end /\ ins.debug_build
             THEN Continue_(Panic(pop_block(f)))
             ELSE LET h == call_context_manager_exit_no_exception(
                               f, block.typ.context_manager)
                  IN  IF o[Len(f.blocks)] = "raise"
                      THEN Res(h, "err", ExitError)
                      ELSE Continue_(pop_block(h))

\* debug_assert!(end1 == end2) stops a debug build only
Instruction_CleanupWith(f, ins, o) ==
    IF Len(f.blocks) = 0 THEN Continue_(Panic(f))
    ELSE LET block == current_block(f)
             g == pop_block(f)
         IN  IF block.typ.kind # "With" THEN Continue_(Panic(g))
             ELSE IF ins.end # block.typ.end /\ ins.debug_build
             THEN Continue_(Panic(g))
             ELSE LET h == call_context_manager_exit_no_exception(
                               g, block.typ.context_manager)
                  IN  IF o[Len(f.blocks)] = "raise"
                      THEN Res(h, "err", ExitError)
                      ELSE Continue_(h)

Instruction_PopBlock(f, ins, o) ==
    IF Len(f.blocks) = 0 THEN Continue_(Panic(f))
    ELSE LET block == current_block(f)
             g == pop_block(f)
         IN  IF block.typ.kind = "With"
             THEN Continue_(Note([g EXCEPT !.open_withs = @ - 1],
                                 Event("dropped", block.typ.context_manager, <<>>, 0, 0, 0)))
             ELSE Continue_(g)

\* faulty variant: a block of another kind is reported as an exception
Instruction_PopException_raising(f, ins, o) ==
    IF Len(f.blocks) = 0 THEN Continue_(Panic(f))
    ELSE LET block == current_block(f)
             g == pop_block(f)
         IN  IF block.typ.kind = "ExceptHandler"
             THEN Continue_(vm_pop_exception(g))
             ELSE Res(g, "err", NoActiveException)

Instruction_PopException(f, ins, o) ==
    IF Len(f.blocks) = 0 THEN Continue_(Panic(f))
    ELSE LET block == current_block(f)
             g == pop_block(f)
         IN  IF block.typ.kind = "ExceptHandler"
             THEN Continue_(vm_pop_exception(g))
             ELSE Continue_(Panic(g))

\* faulty variant: the Loop block is left on the block stack
Instruction_Break_keeping_loop(f, ins, o) ==
    LET g == unwind_loop(f, o)
    IN  IF g.panic THEN Continue_(g)
        ELSE Continue_(jump(g, current_block(g).typ.end))

Instruction_Break(f, ins, o) ==
    LET g == unwind_loop(f, o)
    IN  IF g.panic THEN Continue_(g)
        ELSE Continue_(jump(pop_block(g), current_block(g).typ.end))

\* faulty variant: the Loop block is popped as Break does
Instruction_Continue_popping_loop(f, ins, o) ==
    LET g == unwind_loop(f, o)
    IN  IF g.panic THEN Continue_(g)
        ELSE Continue_(jump(pop_block(g), current_block(g).typ.start))

Instruction_Continue(f, ins, o) ==
    LET g == unwind_loop(f, o)
    IN  IF g.panic THEN Continue_(g)
        ELSE Continue_(jump(g, current_block(g).typ.start))

\* objiter::get_next_object: an exception object is no iterator
NextObject(iterator, ins) == IF iterator \in Iterators THEN ins.next ELSE "raise"

\* faulty variant: the pointer is not set back when a value is yielded
Instruction_YieldFrom_advancing(f, ins, o) ==
    LET g == pop_value(f)
    IN  IF g.panic THEN Continue_(g)
        ELSE IF Len(g.stack) = 0 THEN Continue_(Panic(g))
        ELSE LET next_obj == NextObject(last_value(g), ins)
             IN  IF next_obj = "raise" THEN Res(g, "err", ins.exc)
                 ELSE IF next_obj = "value" THEN Res(g, "yield", ins.value)
                 ELSE Continue_(g)

Instruction_YieldFrom(f, ins, o) ==
    LET g == pop_value(f)
    IN  IF g.panic THEN Continue_(g)
        ELSE IF Len(g.stack) = 0 THEN Continue_(Panic(g))
        ELSE LET next_obj == NextObject(last_value(g), ins)
             IN  IF next_obj = "raise" THEN Res(g, "err", ins.exc)
                 ELSE IF next_obj = "value"
                 THEN Res([g EXCEPT !.lasti = @ - 1], "yield", ins.value)
                 ELSE Continue_(g)

\* faulty variant: the iterator is popped when it produces a value
Instruction_ForIter_consuming(f, ins, o) ==
    IF Len(f.stack) = 0 THEN Continue_(Panic(f))
    ELSE LET next_obj == NextObject(last_value(f), ins)
         IN  IF next_obj = "value" THEN Continue_(push_value(pop_value(f), ins.value))
             ELSE IF next_obj = "exhausted" THEN Continue_(jump(pop_value(f), ins.target))
             ELSE Res(pop_value(f), "err", ins.exc)

Instruction_ForIter(f, ins, o) ==
    IF Len(f.stack) = 0 THEN Continue_(Panic(f))
    ELSE LET next_obj == NextObject(last_value(f), ins)
         IN  IF next_obj = "value" THEN Continue_(push_value(f, ins.value))
             ELSE IF next_obj = "exhausted" THEN Continue_(jump(pop_value(f), ins.target))
             ELSE Res(pop_value(f), "err", ins.exc)

\* objbool::boolval(vm, obj)? answers ins.truth: "true", "false" or "raise"
Instruction_JumpIfTrue(f, ins, o) ==
    LET g == pop_value(f)
    IN  IF g.panic THEN Continue_(g)
        ELSE IF ins.truth = "raise" THEN Res(g, "err", ins.exc)
        ELSE IF ins.truth = "true" THEN Continue_(jump(g, ins.target))
        ELSE Continue_(g)

Instruction_JumpIfFalse(f, ins, o) ==
    LET g == pop_value(f)
    IN  IF g.panic THEN Continue_(g)
        ELSE IF ins.truth = "raise" THEN Res(g, "err", ins.exc)
        ELSE IF ins.truth = "false" THEN Continue_(jump(g, ins.target))
        ELSE Continue_(g)

\* faulty variant: the value is popped before it is tested, as JumpIfTrue does
Instruction_JumpIfTrueOrPop_popping(f, ins, o) ==
    LET g == pop_value(f)
    IN  IF g.panic THEN Continue_(g)
        ELSE IF ins.truth = "raise" THEN Res(g, "err", ins.exc)
        ELSE IF ins.truth = "true" THEN Continue_(jump(g, ins.target))
        ELSE Continue_(g)

Instruction_JumpIfTrueOrPop(f, ins, o) ==
    IF Len(f.stack) = 0 THEN Continue_(Panic(f))
    ELSE IF ins.truth = "raise" THEN Res(f, "err", ins.exc)
    ELSE IF ins.truth = "true" THEN Continue_(jump(f, ins.target))
    ELSE Continue_(pop_value(f))

Instruction_JumpIfFalseOrPop(f, ins, o) ==
    IF Len(f.stack) = 0 THEN Continue_(Panic(f))
    ELSE IF ins.truth = "raise" THEN Res(f, "err", ins.exc)
    ELSE IF ins.truth = "false" THEN Continue_(jump(f, ins.target))
    ELSE Continue_(pop_value(f))

\* faulty variant: the exception is taken from the operand stack, as argc = 1 does
Instruction_Raise_popping(f, ins, o) ==
    IF Len(f.exceptions) > 0 THEN Res(pop_value(f), "err", vm_current_exception(f))
    ELSE Res(pop_value(f), "err", NoActiveException)

\* get_exception: the popped object when it is an exception (or none, where
\* none is allowed), a new instance when it is an exception class, a type error
\* otherwise
get_exception(f, none_allowed) ==
    LET exception == last_value(f)
        g == pop_value(f)
    IN  IF g.panic THEN Res(g, "none", None)
        ELSE IF (none_allowed /\ exception = None) \/ exception \in BaseExceptions
        THEN Res(g, "ok", exception)
        ELSE IF exception \in ExceptionClasses
        THEN Res(g, "ok", new_empty_exception(exception))
        ELSE IF exception \in OtherClasses
        THEN Res(g, "err", NotDerivedTypeError)
        ELSE Res(g, "err", NoExceptionTypeError)

\* vm.set_attr(&exception, name, value)
set_attr(f, obj, name, value) == Note(f, Event("set_attr", obj, <<name, value>>, 0, 0, 0))

\* the tail of the Raise arm: __cause__ and __context__ are set, then Err(exception)
raise_with(f, exception, cause, context) ==
    Res(set_attr(set_attr(f, exception, "__cause__", cause), exception, "__context__", context),
        "err", exception)

\* vm.current_exception() as the context of an explicit raise
context_of(f) == IF Len(f.exceptions) > 0 THEN vm_current_exception(f) ELSE None

\* faulty variant: with argc 2 the exception is popped before the cause
Instruction_Raise_exception_first(f, ins, o) ==
    IF ins.argc \notin 0 .. 2 THEN Continue_(Panic(f))
    ELSE IF ins.argc = 0
    THEN IF Len(f.exceptions) > 0 THEN raise_with(f, vm_current_exception(f), None, None)
         ELSE Res(f, "err", NoActiveException)
    ELSE LET e == get_exception(f, FALSE)
         IN  IF e.f.panic \/ e.kind = "err" THEN e
             ELSE LET c == IF ins.argc = 2 THEN get_exception(e.f, TRUE)
                           ELSE Res(e.f, "ok", None)
                  IN  IF c.f.panic \/ c.kind = "err" THEN c
                      ELSE raise_with(c.f, e.val, c.val, context_of(c.f))

\* Raise { argc }: the cause is popped first (argc 2), then the exception
\* (argc 1 and 2); argc 0 takes the VM's current exception and has no context
Instruction_Raise(f, ins, o) ==
    LET c == IF ins.argc = 2 THEN get_exception(f, TRUE) ELSE Res(f, "ok", None)
    IN  IF c.f.panic \/ c.kind = "err" THEN c
        ELSE IF ins.argc = 0
        THEN IF Len(f.exceptions) > 0 THEN raise_with(f, vm_current_exception(f), None, None)
             ELSE Res(f, "err", NoActiveException)
        ELSE IF ins.argc \in {1, 2}
        THEN LET e == get_exception(c.f, FALSE)
             IN  IF e.f.panic \/ e.kind = "err" THEN e
                 ELSE raise_with(e.f, e.val, c.val, context_of(e.f))
        ELSE Continue_(Panic(f))

\* vm.extract_elements(&value)
extract_elements(f, value) ==
    IF value \in Tuples THEN Res(f, "ok", elements_of[value])
    ELSE Res(f, "err", NotIterableError)

Reversed(s) == [i \in 1 .. Len(s) |-> s[Len(s) + 1 - i]]

\* for element in elements.rev() { self.push_value(element) }
push_reversed(f, elements) ==
    IF f.panic THEN f ELSE [f EXCEPT !.stack = @ \o Reversed(elements)]

\* vm.ctx.new_list(elements): a list is known by its elements
RECURSIVE Joined(_)
Joined(s) == IF s = <<>> THEN "" ELSE Head(s) \o "," \o Joined(Tail(s))

new_list(elements) == "[" \o Joined(elements) \o "]"

\* faulty variant: the elements are pushed first to last
Instruction_UnpackSequence_in_order(f, ins, o) ==
    LET e == extract_elements(pop_value(f), last_value(f))
    IN  IF e.f.panic THEN Continue_(e.f)
        ELSE IF e.kind = "err" THEN e
        ELSE IF Len(e.val) # ins.size THEN Res(e.f, "err", ValueError)
        ELSE Continue_(push_reversed(e.f, Reversed(e.val)))

Instruction_UnpackSequence(f, ins, o) ==
    LET e == extract_elements(pop_value(f), last_value(f))
    IN  IF e.f.panic THEN Continue_(e.f)
        ELSE IF e.kind = "err" THEN e
        ELSE IF Len(e.val) # ins.size THEN Res(e.f, "err", ValueError)
        ELSE Continue_(push_reversed(e.f, e.val))

Instruction_UnpackEx(f, ins, o) ==
    LET e == extract_elements(pop_value(f), last_value(f))
        min_expected == ins.before + ins.after
    IN  IF e.f.panic THEN Continue_(e.f)
        ELSE IF e.kind = "err" THEN e
        ELSE IF Len(e.val) < min_expected THEN Res(e.f, "err", ValueError)
        ELSE LET middle == Len(e.val) - ins.before - ins.after
                 last == SubSeq(e.val, ins.before + middle + 1, Len(e.val))
                 middle_elements == SubSeq(e.val, ins.before + 1, ins.before + middle)
                 first == SubSeq(e.val, 1, ins.before)
             IN  Continue_(push_reversed(push_value(push_reversed(e.f, last),
                                                    new_list(middle_elements)), first))

\* stack[stack.len() - depth - 1], counted from 0: depth 0 is the top; an index
\* out of the stack aborts
nth_value(f, depth) ==
    IF depth + 1 > Len(f.stack) THEN None ELSE f.stack[Len(f.stack) - depth]

\* vm.call_method(&obj, "__setitem__", vec![key, value])
call_setitem(f, obj, key, value) ==
    LET g == Note(f, Event("call_method", obj, <<"__setitem__", key, value>>, 0, 0, 0))
    IN  IF obj \in Dicts THEN Continue_(g) ELSE Res(g, "err", NoSetItemError)

Instruction_MapAdd(f, ins, o) ==
    IF ins.i + 2 > Len(f.stack) THEN Continue_(Panic(f))
    ELSE LET dict_obj == nth_value(f, ins.i + 1)
             key == last_value(f)
             value == last_value(pop_value(f))
         IN  call_setitem(pop_value(pop_value(f)), dict_obj, key, value)

\* faulty variant: the values below the top are pushed back in the order popped
Instruction_Rotate_reversing(f, ins, o) ==
    IF ins.amount < 2 \/ ins.amount > Len(f.stack) THEN Continue_(Panic(f))
    ELSE LET h == Len(f.stack)
             values == Reversed(SubSeq(f.stack, h - ins.amount + 1, h))
         IN  Continue_([f EXCEPT !.stack =
                 SubSeq(@, 1, h - ins.amount) \o <<Head(values)>> \o Tail(values)])

\* Rotate { amount }: pops amount values, pushes the old top back first and the
\* others after it, the last popped first
Instruction_Rotate(f, ins, o) ==
    IF ins.amount < 2 \/ ins.amount > Len(f.stack) THEN Continue_(Panic(f))
    ELSE LET h == Len(f.stack)
             values == Reversed(SubSeq(f.stack, h - ins.amount + 1, h))
         IN  Continue_([f EXCEPT !.stack =
                 SubSeq(@, 1, h - ins.amount) \o <<Head(values)>> \o Reversed(Tail(values))])

\* Reverse { amount }: stack[len - amount .. len].reverse()
Instruction_Reverse(f, ins, o) ==
    IF ins.amount > Len(f.stack) THEN Continue_(Panic(f))
    ELSE LET h == Len(f.stack)
         IN  Continue_([f EXCEPT !.stack = SubSeq(@, 1, h - ins.amount)
                                             \o Reversed(SubSeq(@, h - ins.amount + 1, h))])

\* the match of execute_instruction
execute_instruction(f0, ins, o) ==
    LET f == fetch_instruction(f0)
    IN  CASE ins.op = "LoadConst" -> Instruction_LoadConst(f, ins, o)
          [] ins.op = "LoadName" -> Instruction_LoadName(f, ins, o)
          [] ins.op = "Pop" -> Instruction_Pop(f, ins, o)
          [] ins.op = "Pass" -> Instruction_Pass(f, ins, o)
          [] ins.op = "Jump" -> Instruction_Jump(f, ins, o)
          [] ins.op = "ReturnValue" -> Instruction_ReturnValue(f, ins, o)
          [] ins.op = "YieldValue" -> Instruction_YieldValue(f, ins, o)
          [] ins.op = "SetupLoop" -> Instruction_SetupLoop(f, ins, o)
          [] ins.op = "SetupExcept" -> Instruction_SetupExcept(f, ins, o)
          [] ins.op = "SetupWith" -> Instruction_SetupWith(f, ins, o)
          [] ins.op = "CleanupWith" -> Instruction_CleanupWith(f, ins, o)
          [] ins.op = "PopBlock" -> Instruction_PopBlock(f, ins, o)
          [] ins.op = "PopException" -> Instruction_PopException(f, ins, o)
          [] ins.op = "Break" -> Instruction_Break(f, ins, o)
          [] ins.op = "Continue" -> Instruction_Continue(f, ins, o)
          [] ins.op = "YieldFrom" -> Instruction_YieldFrom(f, ins, o)
          [] ins.op = "ForIter" -> Instruction_ForIter(f, ins, o)
          [] ins.op = "JumpIfTrue" -> Instruction_JumpIfTrue(f, ins, o)
          [] ins.op = "JumpIfFalse" -> Instruction_JumpIfFalse(f, ins, o)
          [] ins.op = "JumpIfTrueOrPop" -> Instruction_JumpIfTrueOrPop(f, ins, o)
          [] ins.op = "JumpIfFalseOrPop" -> Instruction_JumpIfFalseOrPop(f, ins, o)
          [] ins.op = "Raise" -> Instruction_Raise(f, ins, o)
          [] ins.op = "UnpackSequence" -> Instruction_UnpackSequence(f, ins, o)
          [] ins.op = "UnpackEx" -> Instruction_UnpackEx(f, ins, o)
          [] ins.op = "MapAdd" -> Instruction_MapAdd(f, ins, o)
          [] ins.op = "Rotate" -> Instruction_Rotate(f, ins, o)
          [] ins.op = "Reverse" -> Instruction_Reverse(f, ins, o)

\* ---------------------------------------------------------- run / throw
NoResult == [kind |-> "none", value |-> None]

\* op: the instruction (or "throw"); exc: the exception handed to the unwinder
Next_(f, st, res, op, exc) == [f |-> f, status |-> st, result |-> res, op |-> op, exc |-> exc]

\* what unwind_exception's answer means to run and to throw
after_unwind(u, op, exc) ==
    IF u.f.panic THEN Next_(u.f, "panic", NoResult, op, exc)
    ELSE IF u.err = None THEN Next_(u.f, "running", NoResult, op, exc)
    ELSE Next_(u.f, "error", [kind |-> "Error", value |-> u.err], op, exc)

\* code.locations: instruction index -> source row
locations == [i \in 0 .. CodeLen - 1 |-> 10 * (i + 1)]

get_lineno(f) == locations[f.lasti]

\* run's append of (source_path, row, obj_name) to the exception's __traceback__;
\* source_path and obj_name are the frame's own and the same in every record
append_traceback(f, exception, lineno) ==
    Note(f, Event("traceback", exception, <<>>, lineno, 0, 0))

\* faulty variant: an ExceptHandler block catches like the TryExcept it came from
run_result_handler_catching(lineno, r, o, op) ==
    CASE r.f.panic -> Next_(r.f, "panic", NoResult, op, None)
      [] ~r.f.panic /\ r.kind = "none" -> Next_(r.f, "running", NoResult, op, None)
      [] ~r.f.panic /\ r.kind = "return" ->
            Next_(r.f, "return", [kind |-> "Return", value |-> r.val], op, None)
      [] ~r.f.panic /\ r.kind = "yield" ->
            Next_(r.f, "idle", [kind |-> "Yield", value |-> r.val], op, None)
      [] ~r.f.panic /\ r.kind = "err" ->
            IF r.f.blocks # <<>> /\ current_block(r.f).typ.kind = "ExceptHandler"
            THEN Next_(push_value(append_traceback(r.f, r.val, lineno), r.val), "running",
                       NoResult, op, r.val)
            ELSE after_unwind(unwind_exception(append_traceback(r.f, r.val, lineno), o, r.val),
                              op, r.val)

\* faulty variant: the record is appended once the unwinder has answered
run_result_tracing_late(lineno, r, o, op) ==
    CASE r.f.panic -> Next_(r.f, "panic", NoResult, op, None)
      [] ~r.f.panic /\ r.kind = "none" -> Next_(r.f, "running", NoResult, op, None)
      [] ~r.f.panic /\ r.kind = "return" ->
            Next_(r.f, "return", [kind |-> "Return", value |-> r.val], op, None)
      [] ~r.f.panic /\ r.kind = "yield" ->
            Next_(r.f, "idle", [kind |-> "Yield", value |-> r.val], op, None)
      [] ~r.f.panic /\ r.kind = "err" ->
            (LET u == unwind_exception(r.f, o, r.val)
             IN  after_unwind([u EXCEPT !.f = append_traceback(u.f, r.val, lineno)], op, r.val))

\* one iteration of run's loop, given the row read before the fetch and what
\* execute_instruction answered
run_result(lineno, r, o, op) ==
    CASE r.f.panic -> Next_(r.f, "panic", NoResult, op, None)
      [] ~r.f.panic /\ r.kind = "none" -> Next_(r.f, "running", NoResult, op, None)
      [] ~r.f.panic /\ r.kind = "return" ->
            Next_(r.f, "return", [kind |-> "Return", value |-> r.val], op, None)
      [] ~r.f.panic /\ r.kind = "yield" ->
            Next_(r.f, "idle", [kind |-> "Yield", value |-> r.val], op, None)
      [] ~r.f.panic /\ r.kind = "err" ->
            after_unwind(unwind_exception(append_traceback(r.f, r.val, lineno), o, r.val), op, r.val)

run_iteration(f, ins, o) == run_result(get_lineno(f), execute_instruction(f, ins, o), o, ins.op)

\* faulty variant: the pointer is advanced before the exception is unwound
throw_after_fetch(f, o, exception) ==
    after_unwind(unwind_exception(fetch_instruction(f), o, exception), "throw", exception)

throw(f, o, exception) == after_unwind(unwind_exception(f, o, exception), "throw", exception)

\* run on a given code object: the loop of run, until it breaks
RECURSIVE drive(_, _)
drive(f, code) ==
    IF f.lasti >= Len(code) THEN Next_(Panic(f), "panic", NoResult, "fetch", None)
    ELSE LET n == run_iteration(f, code[f.lasti + 1], <<>>)
         IN  IF n.status = "running" THEN drive(n.f, code) ELSE n

\* ------------------------------------------------------------- actions
NoFrame == [id |-> 0]

\* one frame, which pushed every entry of a register of the given length
OneFrame(len) == [current |-> 1, suspended |-> NoFrame, owners |-> [i \in 1 .. len |-> 1]]

Frames == IF generators.suspended.id = 0 THEN 1 ELSE 2

\* the register entries' owners after the pushes and pops a step recorded, and
\* whether each pop took an entry the popping frame had pushed
RECURSIVE Replay(_, _, _, _)
Replay(own, ok, lg, id) ==
    IF lg = <<>> THEN [owners |-> own, ok |-> ok]
    ELSE IF Head(lg).k = "push_exception" THEN Replay(Append(own, id), ok, Tail(lg), id)
    ELSE IF Head(lg).k = "pop_exception"
    THEN Replay(SubSeq(own, 1, Len(own) - 1), ok /\ own[Len(own)] = id, Tail(lg), id)
    ELSE Replay(own, ok, Tail(lg), id)

Driven(lg) ==
    [generators EXCEPT !.owners = Replay(@, TRUE, lg, generators.current).owners]

InBounds(n) ==
    /\ Len(n.f.stack) + Len(n.f.blocks) <= MaxFrame
    /\ Len(n.f.exceptions) <= MaxExc * Frames

\* A panic aborts the process: nothing of the frame or the VM is left to observe.
Aborted ==
    /\ status' = "panic"
    /\ stack' = <<>>
    /\ blocks' = <<>>
    /\ lasti' = 0
    /\ exceptions' = <<>>
    /\ open_withs' = 0
    /\ result' = NoResult
    /\ generators' = OneFrame(0)

Commit(n) ==
    IF n.status = "panic" THEN Aborted
    ELSE /\ InBounds(n)
         /\ stack' = n.f.stack
         /\ blocks' = n.f.blocks
         /\ lasti' = n.f.lasti
         /\ exceptions' = n.f.exceptions
         /\ open_withs' = n.f.open_withs
         /\ generators' = Driven(n.f.log)
         /\ status' = n.status
         /\ result' = n.result

Fetchable == status = "running" /\ lasti < CodeLen

Fetched == fetch_instruction(Frame)

Init ==
    /\ stack = <<>>
    /\ blocks = <<>>
    /\ lasti = 0
    /\ exceptions = <<>>
    /\ status = "idle"
    /\ result = NoResult
    /\ open_withs = 0
    /\ generators = OneFrame(0)

Run ==
    /\ status = "idle"
    /\ status' = "running"
    /\ result' = NoResult
    /\ UNCHANGED <<stack, blocks, lasti, exceptions, open_withs, generators>>

Throw ==
    /\ status = "idle"
    /\ \E exception \in Raisable, o \in Oracle(blocks) : Commit(throw(Frame, o, exception))

FetchPastEnd ==
    /\ status = "running"
    /\ lasti >= CodeLen
    /\ Aborted

LoadConstIns == {[op |-> "LoadConst", value |-> c] : c \in Consts}
LoadNameIns ==
    {[op |-> "LoadName", found |-> b, value |-> c, exc |-> e] :
        b \in BOOLEAN, c \in Consts, e \in Raisable}
PopIns == {[op |-> "Pop"]}
PassIns == {[op |-> "Pass"]}
JumpIns == {[op |-> "Jump", target |-> t] : t \in Labels}
ReturnValueIns == {[op |-> "ReturnValue"]}
YieldValueIns == {[op |-> "YieldValue"]}
SetupLoopIns == {[op |-> "SetupLoop", start |-> 0, end |-> 1]}
SetupExceptIns == {[op |-> "SetupExcept", handler |-> 2]}
SetupWithIns ==
    {[op |-> "SetupWith", end |-> 1, enter_ok |-> b, exc |-> e] : b \in BOOLEAN, e \in Raisable}
CleanupWithIns ==
    {[op |-> "CleanupWith", end |-> t, debug_build |-> b] : t \in {1, 2}, b \in BOOLEAN}
PopBlockIns == {[op |-> "PopBlock"]}
PopExceptionIns == {[op |-> "PopException"]}
BreakIns == {[op |-> "Break"]}
ContinueIns == {[op |-> "Continue"]}
YieldFromIns ==
    {[op |-> "YieldFrom", next |-> n, value |-> c, exc |-> e] :
        n \in {"value", "exhausted", "raise"}, c \in Consts, e \in Raisable}
ForIterIns ==
    {[op |-> "ForIter", target |-> 1, next |-> n, value |-> c, exc |-> e] :
        n \in {"value", "exhausted", "raise"}, c \in Consts, e \in Raisable}
Truth == {"true", "false", "raise"}
JumpIfTrueIns ==
    {[op |-> "JumpIfTrue", target |-> 1, truth |-> t, exc |-> e] : t \in Truth, e \in Raisable}
JumpIfFalseIns ==
    {[op |-> "JumpIfFalse", target |-> 1, truth |-> t, exc |-> e] : t \in Truth, e \in Raisable}
JumpIfTrueOrPopIns ==
    {[op |-> "JumpIfTrueOrPop", target |-> 1, truth |-> t, exc |-> e] :
        t \in Truth, e \in Raisable}
JumpIfFalseOrPopIns ==
    {[op |-> "JumpIfFalseOrPop", target |-> 1, truth |-> t, exc |-> e] :
        t \in Truth, e \in Raisable}
RaiseIns == {[op |-> "Raise", argc |-> 0]}

Instructions ==
    LoadConstIns \cup LoadNameIns \cup PopIns \cup PassIns \cup JumpIns \cup ReturnValueIns
    \cup YieldValueIns \cup SetupLoopIns \cup SetupExceptIns \cup SetupWithIns
    \cup CleanupWithIns \cup PopBlockIns \cup PopExceptionIns \cup BreakIns \cup ContinueIns
    \cup YieldFromIns \cup ForIterIns \cup JumpIfTrueIns \cup JumpIfFalseIns
    \cup JumpIfTrueOrPopIns \cup JumpIfFalseOrPopIns \cup RaiseIns

\* the answers of a step in which no __exit__ is called
NoExit == <<>>

\* the instruction cannot raise and calls no __exit__: no block is unwound by it
Quiet(ins) ==
    \/ ins.op \in {"LoadConst", "Pop", "Pass", "Jump", "YieldValue", "SetupLoop",
                   "SetupExcept", "PopBlock", "PopException"}
    \/ ins.op = "LoadName" /\ ins.found
    \/ /\ ins.op \in {"JumpIfTrue", "JumpIfFalse", "JumpIfTrueOrPop", "JumpIfFalseOrPop"}
       /\ ins.truth # "raise"

\* the __exit__ answers that are inputs of the instruction's step
Inputs(ins) == IF Quiet(ins) THEN {NoExit} ELSE Oracle(blocks)

LoadConst ==
    /\ Fetchable
    /\ \E ins \in LoadConstIns : \E o \in Inputs(ins) :
           Commit(run_result(get_lineno(Frame), Instruction_LoadConst(Fetched, ins, o), o, ins.op))

LoadName ==
    /\ Fetchable
    /\ \E ins \in LoadNameIns : \E o \in Inputs(ins) :
           Commit(run_result(get_lineno(Frame), Instruction_LoadName(Fetched, ins, o), o, ins.op))

Pop ==
    /\ Fetchable
    /\ \E ins \in PopIns : \E o \in Inputs(ins) :
           Commit(run_result(get_lineno(Frame), Instruction_Pop(Fetched, ins, o), o, ins.op))

Pass ==
    /\ Fetchable
    /\ \E ins \in PassIns : \E o \in Inputs(ins) :
           Commit(run_result(get_lineno(Frame), Instruction_Pass(Fetched, ins, o), o, ins.op))

Jump ==
    /\ Fetchable
    /\ \E ins \in JumpIns : \E o \in Inputs(ins) :
           Commit(run_result(get_lineno(Frame), Instruction_Jump(Fetched, ins, o), o, ins.op))

ReturnValue ==
    /\ Fetchable
    /\ \E ins \in ReturnValueIns : \E o \in Inputs(ins) :
           Commit(run_result(get_lineno(Frame), Instruction_ReturnValue(Fetched, ins, o), o, ins.op))

YieldValue ==
    /\ Fetchable
    /\ \E ins \in YieldValueIns : \E o \in Inputs(ins) :
           Commit(run_result(get_lineno(Frame), Instruction_YieldValue(Fetched, ins, o), o, ins.op))

SetupLoop ==
    /\ Fetchable
    /\ \E ins \in SetupLoopIns : \E o \in Inputs(ins) :
           Commit(run_result(get_lineno(Frame), Instruction_SetupLoop(Fetched, ins, o), o, ins.op))

SetupExcept ==
    /\ Fetchable
    /\ \E ins \in SetupExceptIns : \E o \in Inputs(ins) :
           Commit(run_result(get_lineno(Frame), Instruction_SetupExcept(Fetched, ins, o), o, ins.op))

SetupWith ==
    /\ Fetchable
    /\ \E ins \in SetupWithIns : \E o \in Inputs(ins) :
           Commit(run_result(get_lineno(Frame), Instruction_SetupWith(Fetched, ins, o), o, ins.op))

CleanupWith ==
    /\ Fetchable
    /\ \E ins \in CleanupWithIns : \E o \in Inputs(ins) :
           Commit(run_result(get_lineno(Frame), Instruction_CleanupWith(Fetched, ins, o), o, ins.op))

PopBlock ==
    /\ Fetchable
    /\ \E ins \in PopBlockIns : \E o \in Inputs(ins) :
           Commit(run_result(get_lineno(Frame), Instruction_PopBlock(Fetched, ins, o), o, ins.op))

PopException ==
    /\ Fetchable
    /\ \E ins \in PopExceptionIns : \E o \in Inputs(ins) :
           Commit(run_result(get_lineno(Frame), Instruction_PopException(Fetched, ins, o), o, ins.op))

Break ==
    /\ Fetchable
    /\ \E ins \in BreakIns : \E o \in Inputs(ins) :
           Commit(run_result(get_lineno(Frame), Instruction_Break(Fetched, ins, o), o, ins.op))

Continue ==
    /\ Fetchable
    /\ \E ins \in ContinueIns : \E o \in Inputs(ins) :
           Commit(run_result(get_lineno(Frame), Instruction_Continue(Fetched, ins, o), o, ins.op))

YieldFrom ==
    /\ Fetchable
    /\ \E ins \in YieldFromIns : \E o \in Inputs(ins) :
           Commit(run_result(get_lineno(Frame), Instruction_YieldFrom(Fetched, ins, o), o, ins.op))

ForIter ==
    /\ Fetchable
    /\ \E ins \in ForIterIns : \E o \in Inputs(ins) :
           Commit(run_result(get_lineno(Frame), Instruction_ForIter(Fetched, ins, o), o, ins.op))

JumpIfTrue ==
    /\ Fetchable
    /\ \E ins \in JumpIfTrueIns : \E o \in Inputs(ins) :
           Commit(run_result(get_lineno(Frame), Instruction_JumpIfTrue(Fetched, ins, o), o, ins.op))

JumpIfFalse ==
    /\ Fetchable
    /\ \E ins \in JumpIfFalseIns : \E o \in Inputs(ins) :
           Commit(run_result(get_lineno(Frame), Instruction_JumpIfFalse(Fetched, ins, o), o, ins.op))

JumpIfTrueOrPop ==
    /\ Fetchable
    /\ \E ins \in JumpIfTrueOrPopIns : \E o \in Inputs(ins) :
           Commit(run_result(get_lineno(Frame), Instruction_JumpIfTrueOrPop(Fetched, ins, o), o, ins.op))

JumpIfFalseOrPop ==
    /\ Fetchable
    /\ \E ins \in JumpIfFalseOrPopIns : \E o \in Inputs(ins) :
           Commit(run_result(get_lineno(Frame), Instruction_JumpIfFalseOrPop(Fetched, ins, o), o, ins.op))

Raise ==
    /\ Fetchable
    /\ \E ins \in RaiseIns : \E o \in Inputs(ins) :
           Commit(run_result(get_lineno(Frame), Instruction_Raise(Fetched, ins, o), o, ins.op))

Next ==
    \/ Run
    \/ Throw
    \/ FetchPastEnd
    \/ LoadConst
    \/ LoadName
    \/ Pop
    \/ Pass
    \/ Jump
    \/ ReturnValue
    \/ YieldValue
    \/ SetupLoop
    \/ SetupExcept
    \/ SetupWith
    \/ CleanupWith
    \/ PopBlock
    \/ PopException
    \/ Break
    \/ Continue
    \/ YieldFrom
    \/ ForIter
    \/ JumpIfTrue
    \/ JumpIfFalse
    \/ JumpIfTrueOrPop
    \/ JumpIfFalseOrPop
    \/ Raise

Spec == Init /\ [][Next]_vars

\* ------------------------------------- operand-stack instructions
\* The instructions whose effect is a function of the operand stack and the
\* exception register are run from every operand stack up to the bound, in a
\* frame that holds no block.
Operands ==
    {None, "a", "b"} \cup Raisable \cup ExceptionClasses \cup OtherClasses \cup Tuples \cup Dicts

OperandStacks == UNION {[1 .. n -> Operands] : n \in 0 .. MaxFrame}

Registers == UNION {[1 .. n -> Raisable \cup {ExitError}] : n \in 0 .. MaxExc}

InitOps ==
    /\ stack \in OperandStacks
    /\ blocks = <<>>
    /\ lasti = 0
    /\ exceptions \in Registers
    /\ status = "running"
    /\ result = NoResult
    /\ open_withs = 0
    /\ generators = OneFrame(Len(exceptions))

\* argc 3 is not implemented
RaiseArgsIns == {[op |-> "Raise", argc |-> n] : n \in 1 .. 3}

RaiseArgs ==
    /\ Fetchable
    /\ \E ins \in RaiseArgsIns : \E o \in Oracle(blocks) :
           Commit(run_result(get_lineno(Frame), Instruction_Raise(Fetched, ins, o), o, ins.op))

UnpackSequenceIns == {[op |-> "UnpackSequence", size |-> n] : n \in 0 .. MaxFrame}

UnpackExIns == {[op |-> "UnpackEx", before |-> b, after |-> a] : b, a \in 0 .. MaxFrame - 1}

MapAddIns == {[op |-> "MapAdd", i |-> i] : i \in 0 .. 1}

RotateIns == {[op |-> "Rotate", amount |-> n] : n \in 0 .. MaxFrame}

ReverseIns == {[op |-> "Reverse", amount |-> n] : n \in 0 .. MaxFrame}

UnpackSequence ==
    /\ Fetchable
    /\ \E ins \in UnpackSequenceIns : \E o \in Oracle(blocks) :
           Commit(run_result(get_lineno(Frame), Instruction_UnpackSequence(Fetched, ins, o), o, ins.op))

UnpackEx ==
    /\ Fetchable
    /\ \E ins \in UnpackExIns : \E o \in Oracle(blocks) :
           Commit(run_result(get_lineno(Frame), Instruction_UnpackEx(Fetched, ins, o), o, ins.op))

MapAdd ==
    /\ Fetchable
    /\ \E ins \in MapAddIns : \E o \in Oracle(blocks) :
           Commit(run_result(get_lineno(Frame), Instruction_MapAdd(Fetched, ins, o), o, ins.op))

Rotate ==
    /\ Fetchable
    /\ \E ins \in RotateIns : \E o \in Oracle(blocks) :
           Commit(run_result(get_lineno(Frame), Instruction_Rotate(Fetched, ins, o), o, ins.op))

Reverse ==
    /\ Fetchable
    /\ \E ins \in ReverseIns : \E o \in Oracle(blocks) :
           Commit(run_result(get_lineno(Frame), Instruction_Reverse(Fetched, ins, o), o, ins.op))

NextOps ==
    \/ RaiseArgs
    \/ UnpackSequence
    \/ UnpackEx
    \/ MapAdd
    \/ Rotate
    \/ Reverse

SpecOps == InitOps /\ [][NextOps]_vars

\* ------------------------------------------- the frame, every instruction
\* the frame of Spec, run on code that also holds the explicit raises and Rotate
AllInstructions == Instructions \cup RaiseArgsIns \cup RotateIns

AllInputs(ins) == IF ins \in Instructions THEN Inputs(ins) ELSE Oracle(blocks)

NextAll ==
    \/ Next
    \/ RaiseArgs
    \/ Rotate

SpecAll == Init /\ [][NextAll]_vars

\* --------------------------------------- two generators of one VM
\* Two frames of one VM, each the frame of a generator, driven in turn by a
\* caller: a frame that has yielded (or has not run yet) can be left suspended
\* and the other one resumed. The register of current exceptions is the VM's:
\* the frames share it.
Suspended(id) ==
    [id |-> id, stack |-> stack, blocks |-> blocks, lasti |-> lasti, status |-> status,
     result |-> result, open_withs |-> open_withs]

NewFrame2 ==
    [id |-> 2, stack |-> <<>>, blocks |-> <<>>, lasti |-> 0, status |-> "idle",
     result |-> NoResult, open_withs |-> 0]

InitTwo ==
    /\ stack = <<>>
    /\ blocks = <<>>
    /\ lasti = 0
    /\ exceptions = <<>>
    /\ status = "idle"
    /\ result = NoResult
    /\ open_withs = 0
    /\ generators = [current |-> 1, suspended |-> NewFrame2, owners |-> <<>>]

\* the caller leaves the frame that has yielded and turns to the other generator
Switch ==
    /\ status = "idle"
    /\ generators.suspended.id # 0
    /\ generators.suspended.status = "idle"
    /\ stack' = generators.suspended.stack
    /\ blocks' = generators.suspended.blocks
    /\ lasti' = generators.suspended.lasti
    /\ status' = generators.suspended.status
    /\ result' = generators.suspended.result
    /\ open_withs' = generators.suspended.open_withs
    /\ generators' = [generators EXCEPT !.current = generators.suspended.id,
                                        !.suspended = Suspended(generators.current)]
    /\ UNCHANGED exceptions

NextTwo ==
    \/ Run
    \/ Switch
    \/ SetupExcept
    \/ LoadName
    \/ Jump
    \/ YieldValue
    \/ PopException

SpecTwo == InitTwo /\ [][NextTwo]_vars

\* ------------------------------------------------- the unwinding walks
\* The three unwinders, one iteration of their loop at a time. status names the
\* walk in progress, result holds the exception being unwound; a walk that has
\* finished leaves status "done" and its answer in result.
Walk(f, more, err) == [f |-> f, more |-> more, err |-> err]

\* while let Some(block) = self.pop_block() { ... } of unwind_blocks
unwind_blocks_step(f, answer) ==
    IF Len(f.blocks) = 0 THEN Walk(f, FALSE, None)
    ELSE LET block == current_block(f)
             g == pop_block(f)
         IN  CASE block.typ.kind \in {"Loop", "TryExcept"} -> Walk(g, TRUE, None)
               [] block.typ.kind = "With" ->
                    (LET h == call_context_manager_exit_no_exception(g, block.typ.context_manager)
                     IN  IF answer = "raise" THEN Walk(h, FALSE, ExitError)
                         ELSE Walk(h, TRUE, None))
               [] block.typ.kind = "ExceptHandler" -> Walk(vm_pop_exception(g), TRUE, None)

\* faulty variant: a TryExcept block is looked at and left on the block stack
unwind_loop_step_not_popping(f, answer) ==
    IF Len(f.blocks) = 0 THEN Walk(Panic(f), FALSE, None)
    ELSE LET block == current_block(f)
         IN  CASE block.typ.kind = "Loop" -> Walk(f, FALSE, None)
               [] block.typ.kind = "TryExcept" -> Walk(f, TRUE, None)
               [] block.typ.kind = "With" ->
                    (LET h == call_context_manager_exit_no_exception(f, block.typ.context_manager)
                     IN  IF answer = "raise" THEN Walk(Panic(h), FALSE, None)
                         ELSE Walk(pop_block(h), TRUE, None))
               [] block.typ.kind = "ExceptHandler" ->
                    Walk(pop_block(vm_pop_exception(f)), TRUE, None)

\* loop { let block = self.current_block().expect(..); ...; self.pop_block(); }
\* of unwind_loop
unwind_loop_step(f, answer) ==
    IF Len(f.blocks) = 0 THEN Walk(Panic(f), FALSE, None)
    ELSE LET block == current_block(f)
         IN  CASE block.typ.kind = "Loop" -> Walk(f, FALSE, None)
               [] block.typ.kind = "TryExcept" -> Walk(pop_block(f), TRUE, None)
               [] block.typ.kind = "With" ->
                    (LET h == call_context_manager_exit_no_exception(f, block.typ.context_manager)
                     IN  IF answer = "raise" THEN Walk(Panic(h), FALSE, None)
                         ELSE Walk(pop_block(h), TRUE, None))
               [] block.typ.kind = "ExceptHandler" ->
                    Walk(pop_block(vm_pop_exception(f)), TRUE, None)

\* while let Some(block) = self.pop_block() { ... } of unwind_exception
unwind_exception_step(f, answer, exc) ==
    IF Len(f.blocks) = 0 THEN Walk(f, FALSE, exc)
    ELSE LET block == current_block(f)
             g == pop_block(f)
         IN  CASE block.typ.kind = "TryExcept" ->
                    Walk(jump(vm_push_exception(push_value(push_block(g, ExceptHandler), exc),
                                                exc),
                              block.typ.handler),
                         FALSE, None)
               [] block.typ.kind = "With" ->
                    (LET h == call_context_manager_exit(g, block.typ.context_manager, exc)
                     IN  IF answer = "truthy" THEN Walk(jump(h, block.typ.end), FALSE, None)
                         ELSE IF answer = "falsy" THEN Walk(h, TRUE, None)
                         ELSE Walk(h, FALSE, ExitError))
               [] block.typ.kind = "Loop" -> Walk(g, TRUE, None)
               [] block.typ.kind = "ExceptHandler" -> Walk(vm_pop_exception(g), TRUE, None)

Walks == {"unwind_blocks", "unwind_loop", "unwind_exception"}

Walking == status \in Walks

\* the blocks a walk may find, at the levels a stack of at most one value gives
WalkBlocks ==
    {Block(typ, l) : typ \in {Loop(0, 1), TryExcept(2), With(1, "cm"), ExceptHandler},
                     l \in 0 .. 1}

\* one register entry for each ExceptHandler block, one open manager for each
\* With block
InitWalk ==
    /\ stack \in {<<>>, <<"cm">>}
    /\ blocks \in UNION {[1 .. n -> WalkBlocks] : n \in 0 .. MaxFrame - Len(stack)}
    /\ lasti = 0
    /\ exceptions = [i \in 1 .. Cardinality({j \in 1 .. Len(blocks) :
                                                blocks[j].typ.kind = "ExceptHandler"}) |-> ExitError]
    /\ open_withs = Cardinality({j \in 1 .. Len(blocks) : blocks[j].typ.kind = "With"})
    /\ \/ status \in {"unwind_blocks", "unwind_loop"} /\ result = NoResult
       \/ /\ status = "unwind_exception"
          /\ \E e \in Raisable : result = [kind |-> "Raised", value |-> e]
    /\ generators = OneFrame(Len(exceptions))

WalkCommit(w) ==
    IF w.f.panic THEN Aborted
    ELSE /\ stack' = w.f.stack
         /\ blocks' = w.f.blocks
         /\ lasti' = w.f.lasti
         /\ exceptions' = w.f.exceptions
         /\ open_withs' = w.f.open_withs
         /\ generators' = Driven(w.f.log)
         /\ status' = IF w.more THEN status ELSE "done"
         /\ result' = IF w.more THEN result ELSE [kind |-> "Walked", value |-> w.err]

UnwindBlocksStep ==
    /\ status = "unwind_blocks"
    /\ \E answer \in ExitOutcome : WalkCommit(unwind_blocks_step(Frame, answer))

UnwindLoopStep ==
    /\ status = "unwind_loop"
    /\ \E answer \in ExitOutcome : WalkCommit(unwind_loop_step(Frame, answer))

UnwindExceptionStep ==
    /\ status = "unwind_exception"
    /\ \E answer \in ExitOutcome : WalkCommit(unwind_exception_step(Frame, answer, result.value))

NextWalk ==
    \/ UnwindBlocksStep
    \/ UnwindLoopStep
    \/ UnwindExceptionStep

\* every callback returns: a walk that can take a step takes it
SpecWalk == InitWalk /\ [][NextWalk]_vars /\ WF_vars(NextWalk)

\* ===================================================== properties
\* A property of one step is stated over every step the frame can take from a
\* reachable state: every instruction the code may hold at the pointer and every
\* answer the __exit__ calls may give.

Terminated == status \in {"return", "error"}

Events(lg, k) == {i \in 1 .. Len(lg) : lg[i].k = k}

CountKind(bs, kind) == Cardinality({i \in 1 .. Len(bs) : bs[i].typ.kind = kind})

\* the exception passes block j: the block is popped and unwinding goes on
Passes(bs, o, j) ==
    \/ bs[j].typ.kind \in {"Loop", "ExceptHandler"}
    \/ bs[j].typ.kind = "With" /\ o[j] = "falsy"

\* exception unwinding over the block stack bs gets as far as block i
Reaches(bs, o, i) == \A j \in (i + 1) .. Len(bs) : Passes(bs, o, j)

\* events the exception unwinder added after the instruction itself was done
UnwindLog(r, n) == SubSeq(n.f.log, Len(r.f.log) + 1, Len(n.f.log))

\* C1: every With block entered has had its __exit__ called exactly once when the
\* frame has terminated with Return or Error, and never more than once before
C1_ExitExactlyOnce ==
    /\ open_withs >= 0
    /\ Terminated => open_withs = 0

\* C2: the exception register holds one entry per ExceptHandler block: handler
\* entry pushes one, removing the ExceptHandler block pops one, nothing else
\* changes the register
C2_PushPairedWithPop ==
    status \in {"running", "idle"} =>
        Len(exceptions) = CountKind(blocks, "ExceptHandler")

\* C3: when the frame has terminated with Return or Error the exception register
\* is what it was when the frame was first driven (empty)
C3_RegisterRestored == Terminated => exceptions = <<>>

\* C4: after every block pop the operand-stack height equals the block's level
C4_PopRestoresLevel ==
    /\ Fetchable =>
         \A ins \in Instructions : \A o \in Inputs(ins) :
            LET n == run_iteration(Frame, ins, o)
            IN  \A i \in Events(n.f.log, "pop_block") : n.f.log[i].after = n.f.log[i].level
    /\ status = "idle" =>
         \A e \in Raisable, o \in Oracle(blocks) :
            LET n == throw(Frame, o, e)
            IN  \A i \in Events(n.f.log, "pop_block") : n.f.log[i].after = n.f.log[i].level

PopTruncates(ev) ==
    /\ ev.before >= ev.level => ev.after = ev.level
    /\ ev.before < ev.level => ev.after = ev.before

\* C4 (amended): after every block pop the operand-stack height equals the
\* block's level when the stack was at least that high, and is unchanged (below
\* the level) when it was lower
C4_PopTruncatesToLevel ==
    /\ Fetchable =>
         \A ins \in Instructions : \A o \in Inputs(ins) :
            LET n == run_iteration(Frame, ins, o)
            IN  \A i \in Events(n.f.log, "pop_block") : PopTruncates(n.f.log[i])
    /\ status = "idle" =>
         \A e \in Raisable, o \in Oracle(blocks) :
            LET n == throw(Frame, o, e)
            IN  \A i \in Events(n.f.log, "pop_block") : PopTruncates(n.f.log[i])

\* a step from this state pops a block off a stack higher than the block's level
C4_Witness ==
    /\ Fetchable
    /\ \E ins \in Instructions : \E o \in Inputs(ins) :
          LET n == run_iteration(Frame, ins, o)
          IN  /\ n.status # "panic"
              /\ \E i \in Events(n.f.log, "pop_block") :
                    n.f.log[i].before > n.f.log[i].level /\ n.f.log[i].after = n.f.log[i].level

\* ---------------------------------------------- steps that raise
\* Every way an exception can be handed to the exception unwinder from the
\* current state: r is what the instruction answered (for throw: the frame as it
\* stands), o the answers of the __exit__ calls, n the outcome of the step.
Case(r, o, n) == [r |-> r, o |-> o, n |-> n]

EveryRaised(P(_)) ==
    /\ Fetchable =>
         \A ins \in Instructions : \A o \in Inputs(ins) :
            LET r == execute_instruction(Frame, ins, o)
            IN  (r.kind = "err" /\ ~r.f.panic) => P(Case(r, o, run_result(get_lineno(Frame), r, o, ins.op)))
    /\ status = "idle" =>
         \A e \in Raisable, o \in Oracle(blocks) :
            P(Case(Res(Frame, "err", e), o, throw(Frame, o, e)))

SomeRaised(P(_)) ==
    \/ /\ Fetchable
       /\ \E ins \in Instructions : \E o \in Inputs(ins) :
             LET r == execute_instruction(Frame, ins, o)
             IN  r.kind = "err" /\ ~r.f.panic /\ P(Case(r, o, run_result(get_lineno(Frame), r, o, ins.op)))
    \/ /\ status = "idle"
       /\ \E e \in Raisable, o \in Oracle(blocks) :
             P(Case(Res(Frame, "err", e), o, throw(Frame, o, e)))

Top(s) == s[Len(s)]

MinOf(S) == CHOOSE m \in S : \A x \in S : m <= x

\* operand-stack height once block k has been popped by an unwinder that started
\* with operand stack st and block stack bs
HeightAfter(bs, st, k) == MinOf({Len(st)} \cup {bs[j].level : j \in k .. Len(bs)})

\* the handler of TryExcept block k has been entered with exception e, the
\* ExceptHandler block recording level lvl
HandlerEntered(c, k, lvl) ==
    LET bs == c.r.f.blocks
        st == c.r.f.stack
        n == c.n
    IN  /\ n.status = "running"
        /\ n.result = NoResult
        /\ n.f.blocks = Append(SubSeq(bs, 1, k - 1), Block(ExceptHandler, lvl))
        /\ Len(n.f.stack) = lvl + 1
        /\ n.f.stack = Append(SubSeq(st, 1, lvl), c.r.val)
        /\ Len(n.f.exceptions) > 0
        /\ Top(n.f.exceptions) = c.r.val
        /\ n.f.lasti = label_map[bs[k].typ.handler]

\* C5: when exception unwinding reaches a TryExcept block the block is replaced
\* by an ExceptHandler block of the same level, the stack is truncated to that
\* level and e pushed (height level + 1, top e), e is on top of the exception
\* register, the pointer is the handler's target and dispatch goes on
C5_HandlerEntryAtTryLevel ==
    EveryRaised(LAMBDA c :
        \A k \in 1 .. Len(c.r.f.blocks) :
            (c.r.f.blocks[k].typ.kind = "TryExcept" /\ Reaches(c.r.f.blocks, c.o, k))
                => HandlerEntered(c, k, c.r.f.blocks[k].level))

\* C5 (amended): as above, but the ExceptHandler block records the stack height
\* the truncation left, which is the TryExcept level only when the stack had
\* not already been shorter than that level
C5_HandlerEntry ==
    EveryRaised(LAMBDA c :
        \A k \in 1 .. Len(c.r.f.blocks) :
            (c.r.f.blocks[k].typ.kind = "TryExcept" /\ Reaches(c.r.f.blocks, c.o, k))
                => HandlerEntered(c, k, HeightAfter(c.r.f.blocks, c.r.f.stack, k)))

\* a step from this state unwinds at least one block and then enters a handler
C5_Witness ==
    SomeRaised(LAMBDA c :
        \E k \in 1 .. Len(c.r.f.blocks) :
            /\ c.r.f.blocks[k].typ.kind = "TryExcept"
            /\ Reaches(c.r.f.blocks, c.o, k)
            /\ k < Len(c.r.f.blocks)
            /\ InBounds(c.n)
            /\ c.n.status = "running"
            /\ Top(c.n.f.stack) = c.r.val)

WithsReached(bs, o) ==
    {i \in 1 .. Len(bs) : bs[i].typ.kind = "With" /\ Reaches(bs, o, i)}

ExitArgs(e) == <<TypeOf(e), e, None>>

\* C6: a With block met by exception unwinding has its __exit__ called with
\* (type(e), e, none); a truthy answer suppresses e, sets the pointer to the
\* block's end and leaves the blocks below alone while dispatch resumes; a falsy
\* answer lets unwinding go on to the next outer block with the same e
C6_WithDuringUnwinding ==
    EveryRaised(LAMBDA c :
        LET bs == c.r.f.blocks
            e == c.r.val
            n == c.n
            ul == UnwindLog(c.r, n)
            reached == WithsReached(bs, c.o)
        IN  /\ Cardinality(Events(ul, "__exit__")) = Cardinality(reached)
            /\ \A j \in Events(ul, "__exit__") :
                  ul[j].arg = ExitArgs(e) /\ ul[j].obj \in {bs[i].typ.context_manager : i \in reached}
            /\ \A i \in reached :
                  /\ c.o[i] = "truthy" =>
                        /\ n.status = "running"
                        /\ n.result = NoResult
                        /\ n.f.lasti = label_map[bs[i].typ.end]
                        /\ n.f.blocks = SubSeq(bs, 1, i - 1)
                  /\ (c.o[i] = "falsy" /\ i = 1) =>
                        /\ n.status = "error"
                        /\ n.result = [kind |-> "Error", value |-> e]
                  /\ (c.o[i] = "falsy" /\ i > 1) =>
                        /\ Cardinality(Events(ul, "pop_block")) >= Len(bs) - i + 2
                        /\ bs[i - 1].typ.kind = "TryExcept" =>
                              (n.status = "running" /\ Top(n.f.stack) = e))

\* a step from this state unwinds through a With block whose __exit__ answers
\* falsy and is then suppressed by an outer With block whose __exit__ answers truthy
C6_Witness ==
    SomeRaised(LAMBDA c :
        /\ InBounds(c.n)
        /\ \E i, j \in WithsReached(c.r.f.blocks, c.o) :
              i < j /\ c.o[i] = "truthy" /\ c.o[j] = "falsy"
        /\ c.n.status = "running")

\* C7: when the __exit__ called during exception unwinding itself raises, the
\* new exception replaces e and unwinding goes on to the outer blocks: a
\* TryExcept block just below receives the new exception, and an Error leaves
\* no block behind
C7_ExitErrorKeepsUnwinding ==
    EveryRaised(LAMBDA c :
        LET bs == c.r.f.blocks
            n == c.n
        IN  \A i \in WithsReached(bs, c.o) :
                c.o[i] = "raise" =>
                    /\ n.status = "error" =>
                          (n.result = [kind |-> "Error", value |-> ExitError] /\ n.f.blocks = <<>>)
                    /\ (i > 1 /\ bs[i - 1].typ.kind = "TryExcept") =>
                          /\ n.status = "running"
                          /\ Top(n.f.stack) = ExitError
                          /\ n.f.lasti = label_map[bs[i - 1].typ.handler])

Stops(bs, o) ==
    {k \in 1 .. Len(bs) :
        /\ Reaches(bs, o, k)
        /\ \/ bs[k].typ.kind = "TryExcept"
           \/ bs[k].typ.kind = "With" /\ o[k] = "truthy"}

Target(b) == IF b.typ.kind = "TryExcept" THEN b.typ.handler ELSE b.typ.end

IsPrefix(s, t) == Len(s) <= Len(t) /\ s = SubSeq(t, 1, Len(s))

C9_UncaughtLeavesError ==
    EveryRaised(LAMBDA c :
        Stops(c.r.f.blocks, c.o) = {} =>
            /\ c.n.status = "error"
            /\ c.n.result = [kind |-> "Error", value |-> c.r.val]
            /\ c.n.f.blocks = <<>>)

RaisingWiths(bs, o) == {i \in 1 .. Len(bs) : bs[i].typ.kind = "With" /\ o[i] = "raise"}

MaxOf(S) == CHOOSE m \in S : \A x \in S : m >= x

NoExceptionArgs == <<None, None, None>>

\* C10: ReturnValue pops the value and every remaining block: a With block gets
\* its __exit__ with three nones, an ExceptHandler block pops the register,
\* Loop and TryExcept blocks are dropped (a TryExcept is no handler here), and
\* Return(value) is the result; an __exit__ that raises stops this, no Return is
\* produced, and the error goes to the exception unwinder with the blocks that
\* were not yet popped
C10_ReturnUnwinds ==
    (Fetchable /\ stack # <<>>) =>
        \A ins \in ReturnValueIns : \A o \in Inputs(ins) :
            LET r == execute_instruction(Frame, ins, o)
                n == run_iteration(Frame, ins, o)
                raising == RaisingWiths(blocks, o)
                exits == Events(r.f.log, "__exit__")
            IN  /\ \A j \in exits : r.f.log[j].arg = NoExceptionArgs
                /\ raising = {} =>
                      /\ n.status = "return"
                      /\ n.result = [kind |-> "Return", value |-> Top(stack)]
                      /\ n.f.blocks = <<>>
                      /\ n.f.lasti = lasti + 1
                      /\ Cardinality(exits) = CountKind(blocks, "With")
                      /\ Cardinality(Events(n.f.log, "pop_exception")) = CountKind(blocks, "ExceptHandler")
                      /\ Len(n.f.exceptions) = Len(exceptions) - CountKind(blocks, "ExceptHandler")
                      /\ Events(n.f.log, "push_exception") = {}
                /\ raising # {} =>
                      LET i == MaxOf(raising)
                      IN  /\ n.status # "return"
                          /\ r.kind = "err" /\ r.val = ExitError
                          /\ r.f.blocks = SubSeq(blocks, 1, i - 1)
                          /\ Cardinality(exits) =
                                Cardinality({j \in i .. Len(blocks) : blocks[j].typ.kind = "With"})
                          /\ i = 1 => (n.status = "error"
                                        /\ n.result = [kind |-> "Error", value |-> ExitError])
                          /\ (i > 1 /\ blocks[i - 1].typ.kind = "TryExcept") =>
                                /\ n.status = "running"
                                /\ Top(n.f.stack) = ExitError
                                /\ n.f.lasti = label_map[blocks[i - 1].typ.handler]

\* a ReturnValue from this state unwinds an ExceptHandler block and a With block
\* and returns
C10_Witness ==
    /\ Fetchable
    /\ stack # <<>>
    /\ CountKind(blocks, "With") > 0
    /\ CountKind(blocks, "ExceptHandler") > 0
    /\ \E ins \in ReturnValueIns : \E o \in Inputs(ins) :
          run_iteration(Frame, ins, o).status = "return"

\* ------------------------------------------------ Break and Continue
\* position of the innermost Loop block, 0 when there is none
InnermostLoop(bs) ==
    LET loops == {i \in 1 .. Len(bs) : bs[i].typ.kind = "Loop"}
    IN  IF loops = {} THEN 0 ELSE MaxOf(loops)

Above(bs, i, kind) == {j \in (i + 1) .. Len(bs) : bs[j].typ.kind = kind}

\* the kinds of the blocks popped during a step, in the order they were popped
PoppedKinds(lg) ==
    LET ps == SelectSeq(lg, LAMBDA e : e.k = "pop_block")
    IN  [i \in 1 .. Len(ps) |-> ps[i].obj]

\* the kinds of blocks from .. Len(bs), innermost first
KindsDownTo(bs, from) == [i \in 1 .. (Len(bs) - from + 1) |-> bs[Len(bs) + 1 - i].typ.kind]

\* what unwinding to the innermost Loop block at position loop does when no
\* __exit__ raises
LoopUnwound(n, loop) ==
    /\ n.status = "running"
    /\ n.result = NoResult
    /\ Cardinality(Events(n.f.log, "__exit__")) = Cardinality(Above(blocks, loop, "With"))
    /\ \A i \in Events(n.f.log, "__exit__") : n.f.log[i].arg = NoExceptionArgs
    /\ Cardinality(Events(n.f.log, "pop_exception")) =
          Cardinality(Above(blocks, loop, "ExceptHandler"))
    /\ Len(n.f.exceptions) = Len(exceptions) - Cardinality(Above(blocks, loop, "ExceptHandler"))
    /\ Cardinality(Events(n.f.log, "jump")) = 1
    /\ \A i \in Events(n.f.log, "__exit__"), j \in Events(n.f.log, "jump") : i < j

\* C11: Break pops the blocks above the innermost Loop block innermost first,
\* with __exit__(None, None, None) for a With block and pop_exception for an
\* ExceptHandler block, then pops the Loop block, truncating the operand stack
\* to its level, and sets the pointer to label_map[end]; every __exit__ call
\* comes before the pointer is changed
C11_BreakUnwinds ==
    Fetchable =>
        \A ins \in BreakIns : \A o \in Inputs(ins) :
            LET loop == InnermostLoop(blocks)
                n == run_iteration(Frame, ins, o)
            IN  (loop > 0 /\ \A j \in Above(blocks, loop, "With") : o[j] # "raise") =>
                    /\ LoopUnwound(n, loop)
                    /\ PoppedKinds(n.f.log) = KindsDownTo(blocks, loop)
                    /\ n.f.blocks = SubSeq(blocks, 1, loop - 1)
                    /\ n.f.stack = SubSeq(stack, 1, HeightAfter(blocks, stack, loop))
                    /\ Len(n.f.stack) <= blocks[loop].level
                    /\ n.f.lasti = label_map[blocks[loop].typ.end]

\* a Break from this state leaves a With block and then its Loop block, and
\* cuts the operand stack down to the Loop's level
C11_Witness ==
    /\ Fetchable
    /\ InnermostLoop(blocks) > 0
    /\ Above(blocks, InnermostLoop(blocks), "With") # {}
    /\ Len(stack) > blocks[InnermostLoop(blocks)].level
    /\ \E ins \in BreakIns : \E o \in Inputs(ins) :
          LET n == run_iteration(Frame, ins, o)
          IN  n.status = "running" /\ InBounds(n) /\ Events(n.f.log, "__exit__") # {}

\* C12: Continue pops the blocks above the innermost Loop block with the exit
\* actions of Break, leaves the Loop block on top with its level, leaves the
\* blocks below alone and sets the pointer to label_map[start]
C12_ContinueUnwinds ==
    Fetchable =>
        \A ins \in ContinueIns : \A o \in Inputs(ins) :
            LET loop == InnermostLoop(blocks)
                n == run_iteration(Frame, ins, o)
            IN  (loop > 0 /\ \A j \in Above(blocks, loop, "With") : o[j] # "raise") =>
                    /\ LoopUnwound(n, loop)
                    /\ PoppedKinds(n.f.log) = KindsDownTo(blocks, loop + 1)
                    /\ n.f.blocks = SubSeq(blocks, 1, loop)
                    /\ IF loop < Len(blocks)
                       THEN n.f.stack = SubSeq(stack, 1, HeightAfter(blocks, stack, loop + 1))
                       ELSE n.f.stack = stack
                    /\ n.f.lasti = label_map[blocks[loop].typ.start]

\* a Continue from this state leaves an ExceptHandler block and stays in its Loop
C12_Witness ==
    /\ Fetchable
    /\ InnermostLoop(blocks) > 0
    /\ Above(blocks, InnermostLoop(blocks), "ExceptHandler") # {}
    /\ \E ins \in ContinueIns : \E o \in Inputs(ins) :
          LET n == run_iteration(Frame, ins, o)
          IN  n.status = "running" /\ InBounds(n) /\ Events(n.f.log, "pop_exception") # {}

\* C13: an __exit__ that raises while Break unwinds to its Loop becomes a raised
\* exception handed to the exception unwinder (the frame goes on at a handler
\* or leaves with an Error); while Continue unwinds it is fatal
C13_BreakExitErrorPropagates ==
    Fetchable =>
        \A o \in Oracle(blocks) :
            LET loop == InnermostLoop(blocks)
            IN  (loop > 0 /\ \E j \in Above(blocks, loop, "With") : o[j] = "raise") =>
                    /\ \A ins \in BreakIns :
                          LET n == run_iteration(Frame, ins, o)
                          IN  /\ n.status \in {"running", "error"}
                              /\ n.exc = ExitError
                    /\ \A ins \in ContinueIns : run_iteration(Frame, ins, o).status = "panic"

\* ------------------------------------------------------ generators
Yield(v) == [kind |-> "Yield", value |-> v]

Rest(st) == SubSeq(st, 1, Len(st) - 1)

\* C14: YieldFrom pops the sent value and steps the iterator below it: on an
\* item the pointer is set back to the YieldFrom and run returns Yield(item),
\* the iterator still on the stack and the blocks as they were; on exhaustion
\* the pointer stays past the YieldFrom, nothing is yielded and the iterator
\* stays on the stack
C14_YieldFrom ==
    (Fetchable /\ Len(stack) >= 2) =>
        \A ins \in YieldFromIns : \A o \in Inputs(ins) :
            LET n == run_iteration(Frame, ins, o)
            IN  stack[Len(stack) - 1] \in Iterators =>
                    /\ ins.next = "value" =>
                          /\ n.status = "idle"
                          /\ n.result = Yield(ins.value)
                          /\ n.f.lasti = lasti
                          /\ n.f.stack = Rest(stack)
                          /\ n.f.blocks = blocks
                          /\ n.f.exceptions = exceptions
                    /\ ins.next = "exhausted" =>
                          /\ n.status = "running"
                          /\ n.result = NoResult
                          /\ n.f.lasti = lasti + 1
                          /\ n.f.stack = Rest(stack)
                          /\ n.f.blocks = blocks
                          /\ n.f.exceptions = exceptions

\* a YieldFrom from this state, inside a block and past the first instruction,
\* yields an item of the iterator under the sent value
C14_Witness ==
    /\ Fetchable
    /\ Len(stack) >= 2
    /\ stack[Len(stack) - 1] \in Iterators
    /\ blocks # <<>>
    /\ lasti > 0
    /\ \E ins \in YieldFromIns : \E o \in Inputs(ins) :
          /\ ins.next = "value"
          /\ run_iteration(Frame, ins, o).status = "idle"
          /\ InBounds(run_iteration(Frame, ins, o))

Const(c) == [op |-> "LoadConst", value |-> c]

\* yield c; yield c; return c
TwoYields ==
    << Const("cm"), [op |-> "YieldValue"], Const("cm"), [op |-> "YieldValue"],
       Const("cm"), [op |-> "ReturnValue"] >>

NewFrame ==
    [stack |-> <<>>, blocks |-> <<>>, lasti |-> 0, exceptions |-> <<>>,
     open_withs |-> 0, log |-> <<>>, panic |-> FALSE]

\* C15: YieldValue pops one value v and makes run return Yield(v), the rest of
\* the operand stack, the block stack and the exception register unchanged and
\* the pointer past the YieldValue; run goes on from that state, so two
\* YieldValue and a return give Yield, Yield, Return on three drives
C15_YieldValue ==
    /\ (Fetchable /\ stack # <<>>) =>
          \A ins \in YieldValueIns : \A o \in Inputs(ins) :
              LET n == run_iteration(Frame, ins, o)
              IN  /\ n.status = "idle"
                  /\ n.result = Yield(Top(stack))
                  /\ n.f.stack = Rest(stack)
                  /\ n.f.blocks = blocks
                  /\ n.f.exceptions = exceptions
                  /\ n.f.lasti = lasti + 1
    /\ LET first == drive(NewFrame, TwoYields)
           second == drive(first.f, TwoYields)
           third == drive(second.f, TwoYields)
       IN  /\ first.result = Yield("cm") /\ first.f.lasti = 2
           /\ second.result = Yield("cm") /\ second.f.lasti = 4
           /\ third.result = [kind |-> "Return", value |-> "cm"]

\* a YieldValue from this state suspends a frame that holds a block, an
\* exception in the register and a value under the yielded one
C15_Witness ==
    /\ Fetchable
    /\ Len(stack) >= 2
    /\ blocks # <<>>
    /\ exceptions # <<>>
    /\ \E ins \in YieldValueIns : \E o \in Inputs(ins) :
          /\ run_iteration(Frame, ins, o).status = "idle"
          /\ InBounds(run_iteration(Frame, ins, o))

\* C16: ForIter steps the iterator on top of the stack: a value is pushed above
\* it and the pointer falls through; on exhaustion the iterator is popped and
\* the pointer is label_map[target]; on an error the iterator is popped and the
\* error raised. The iterator is popped at exhaustion or error only
C16_ForIter ==
    (Fetchable /\ stack # <<>>) =>
        \A ins \in ForIterIns : \A o \in Inputs(ins) :
            LET r == execute_instruction(Frame, ins, o)
                n == run_iteration(Frame, ins, o)
                next_obj == IF Top(stack) \in Iterators THEN ins.next ELSE "raise"
            IN  /\ next_obj = "value" =>
                      /\ n.status = "running"
                      /\ n.f.stack = Append(stack, ins.value)
                      /\ n.f.lasti = lasti + 1
                      /\ n.f.blocks = blocks
                /\ next_obj = "exhausted" =>
                      /\ n.status = "running"
                      /\ n.f.stack = Rest(stack)
                      /\ n.f.lasti = label_map[ins.target]
                      /\ n.f.blocks = blocks
                /\ next_obj = "raise" =>
                      /\ r.kind = "err" /\ r.val = ins.exc
                      /\ r.f.stack = Rest(stack)
                      /\ r.f.blocks = blocks
                      /\ n.exc = ins.exc
                      /\ n.status \in {"running", "error"}

\* a ForIter from this state, inside a Loop block, finds its iterator exhausted
C16_Witness ==
    /\ Fetchable
    /\ stack # <<>>
    /\ Top(stack) \in Iterators
    /\ InnermostLoop(blocks) > 0
    /\ \E ins \in ForIterIns : \E o \in Inputs(ins) :
          /\ ins.next = "exhausted"
          /\ run_iteration(Frame, ins, o).status = "running"
          /\ Len(run_iteration(Frame, ins, o).f.stack) = Len(stack) - 1

\* ------------------------------------------------- pointer progress
\* the instruction transfers control from the current state
Taken(ins) ==
    \/ ins.op \in {"Jump", "Break", "Continue"}
    \/ ins.op \in {"JumpIfTrue", "JumpIfTrueOrPop"} /\ ins.truth = "true"
    \/ ins.op \in {"JumpIfFalse", "JumpIfFalseOrPop"} /\ ins.truth = "false"
    \/ ins.op = "ForIter" /\ ins.next = "exhausted"

\* the label it transfers control to
TargetOf(ins) ==
    IF ins.op = "Break" THEN blocks[InnermostLoop(blocks)].typ.end
    ELSE IF ins.op = "Continue" THEN blocks[InnermostLoop(blocks)].typ.start
    ELSE ins.target

Completed(r) == ~r.f.panic /\ r.kind # "err"

\* C17: after an instruction that executes without error the pointer is the
\* pointer before the fetch plus one when the instruction does not transfer
\* control, and label_map[target] when it does
C17_PointerProgress ==
    Fetchable =>
        \A ins \in Instructions : \A o \in Inputs(ins) :
            LET r == execute_instruction(Frame, ins, o)
            IN  Completed(r) =>
                    r.f.lasti = IF Taken(ins) THEN label_map[TargetOf(ins)] ELSE lasti + 1

\* C17 (amended): as above, except that a YieldFrom that yields an item leaves
\* the pointer where it was before the fetch
C17_PointerProgressButYieldFrom ==
    Fetchable =>
        \A ins \in Instructions : \A o \in Inputs(ins) :
            LET r == execute_instruction(Frame, ins, o)
            IN  Completed(r) =>
                    r.f.lasti = IF Taken(ins) THEN label_map[TargetOf(ins)]
                                ELSE IF ins.op = "YieldFrom" /\ r.kind = "yield" THEN lasti
                                ELSE lasti + 1

\* from this state a conditional jump is taken to a target that is not the next
\* instruction, and the same jump not taken falls through
C17_Witness ==
    /\ Fetchable
    /\ stack # <<>>
    /\ \E ins \in JumpIfTrueIns : \E o \in Inputs(ins) :
          /\ ins.truth = "true"
          /\ label_map[ins.target] # lasti + 1
          /\ run_iteration(Frame, ins, o).f.lasti = label_map[ins.target]
          /\ InBounds(run_iteration(Frame, ins, o))
    /\ \E ins \in JumpIfTrueIns : \E o \in Inputs(ins) :
          /\ ins.truth = "false"
          /\ run_iteration(Frame, ins, o).f.lasti = lasti + 1

\* ------------------------------------------------- traceback records
Records(lg) == Events(lg, "traceback")

\* C18: each time an instruction executed by run raises, exactly one record is
\* appended to that exception's traceback, its row is the location of the
\* pointer before the fetch, and the append comes before anything the unwinder
\* does; an instruction that does not raise appends none
C18_TracebackRecord ==
    Fetchable =>
        \A ins \in Instructions : \A o \in Inputs(ins) :
            LET r == execute_instruction(Frame, ins, o)
                n == run_result(get_lineno(Frame), r, o, ins.op)
            IN  ~r.f.panic =>
                    IF r.kind = "err"
                    THEN /\ Cardinality(Records(n.f.log)) = 1
                         /\ \A i \in Records(n.f.log) :
                               /\ n.f.log[i].obj = r.val
                               /\ n.f.log[i].level = locations[lasti]
                               /\ i = Len(r.f.log) + 1
                    ELSE Records(n.f.log) = {}

\* from this state, past the first instruction, an instruction raises and the
\* unwinder then acts on a block
C18_Witness ==
    /\ Fetchable
    /\ lasti > 0
    /\ blocks # <<>>
    /\ \E ins \in Instructions : \E o \in Inputs(ins) :
          LET r == execute_instruction(Frame, ins, o)
              n == run_iteration(Frame, ins, o)
          IN  /\ ~r.f.panic /\ r.kind = "err"
              /\ InBounds(n)
              /\ Len(n.f.log) > Len(r.f.log) + 1

\* the step appended a record to the exception it leaves the frame with
Recorded(n) == \E i \in Records(n.f.log) : n.f.log[i].obj = n.result.value

\* the frame as Frame::new left it: run has not been entered, so no record of
\* this frame exists on any exception
NeverRun == status = "idle" /\ result = NoResult

\* every exception that leaves through run, from an instruction or from an
\* __exit__ called while unwinding, got a record at that step
RunErrorsRecorded ==
    Fetchable =>
        \A ins \in Instructions : \A o \in Inputs(ins) :
            LET n == run_iteration(Frame, ins, o)
            IN  n.status = "error" => Recorded(n)

\* every exception thrown into a frame that never ran and left unhandled got a
\* record at that step
ThrowErrorsRecorded ==
    NeverRun =>
        \A e \in Raisable, o \in Oracle(blocks) :
            LET n == throw(Frame, o, e)
            IN  n.status = "error" => Recorded(n)

\* C19: every exception that leaves the frame uncaught, whether raised by an
\* instruction in run, injected by throw and handled by no block, or raised by
\* a With __exit__ during unwinding, has had a record for this frame appended
\* to its traceback
C19_UncaughtHasRecord == RunErrorsRecorded /\ ThrowErrorsRecorded

\* ------------------------------------------------- bare raise
\* C20: Raise with argc 0 raises the VM's current exception, the same object,
\* when the register is not empty and the runtime error "No active exception
\* to reraise" when it is; it pops nothing from the operand stack, and the
\* error goes to the unwinder like any other: out of the frame when no block
\* is left, into the handler when the innermost block is a TryExcept
C20_BareRaise ==
    Fetchable =>
        \A ins \in RaiseIns : \A o \in Inputs(ins) :
            LET r == execute_instruction(Frame, ins, o)
                n == run_iteration(Frame, ins, o)
            IN  /\ ~r.f.panic
                /\ r.kind = "err"
                /\ r.val = IF exceptions # <<>> THEN exceptions[Len(exceptions)]
                           ELSE NoActiveException
                /\ r.f.stack = stack
                /\ r.f.blocks = blocks
                /\ r.f.exceptions = exceptions
                /\ n.exc = r.val
                /\ blocks = <<>> =>
                      n.status = "error" /\ n.result = [kind |-> "Error", value |-> r.val]
                /\ (blocks # <<>> /\ blocks[Len(blocks)].typ.kind = "TryExcept") =>
                      /\ n.status = "running"
                      /\ n.f.stack[Len(n.f.stack)] = r.val
                      /\ n.f.lasti = label_map[blocks[Len(blocks)].typ.handler]

\* inside a handler, with a value on the operand stack, a bare raise re-raises
\* the active exception and an enclosing TryExcept catches it
C20_Witness ==
    /\ Fetchable
    /\ exceptions # <<>>
    /\ stack # <<>>
    /\ \E ins \in RaiseIns : \E o \in Inputs(ins) :
          LET n == run_iteration(Frame, ins, o)
          IN  /\ n.status = "running"
              /\ InBounds(n)
              /\ n.exc = exceptions[Len(exceptions)]
              /\ n.f.stack # <<>>
              /\ n.f.stack[Len(n.f.stack)] = exceptions[Len(exceptions)]

\* ------------------------------------------------- explicit raise
\* what get_exception makes of an exception or an exception class
CanRaise(v) == v \in BaseExceptions \cup ExceptionClasses

Instance(v) == IF v \in ExceptionClasses THEN new_empty_exception(v) ELSE v

AttrsSet(lg, obj, name) ==
    {lg[i].arg[2] : i \in {j \in Events(lg, "set_attr") : lg[j].obj = obj /\ lg[j].arg[1] = name}}

\* r raises the exception made of `exception`, with the cause made of `cause`
\* and the VM's current exception as context, having popped `popped` values
Raised(r, exception, cause, popped) ==
    /\ ~r.f.panic
    /\ r.kind = "err"
    /\ r.val = Instance(exception)
    /\ AttrsSet(r.f.log, r.val, "__cause__") = {Instance(cause)}
    /\ AttrsSet(r.f.log, r.val, "__context__") =
          {IF exceptions # <<>> THEN exceptions[Len(exceptions)] ELSE None}
    /\ r.f.stack = SubSeq(stack, 1, Len(stack) - popped)
    /\ r.f.exceptions = exceptions

TypeErrorRaised(r) == ~r.f.panic /\ r.kind = "err" /\ r.val \in TypeErrors

\* the explicit raises, CauseOk telling which popped causes are accepted
ExplicitRaise(CauseOk(_)) ==
    Fetchable =>
        \A ins \in RaiseArgsIns : \A o \in Oracle(blocks) :
            LET r == execute_instruction(Frame, ins, o)
                h == Len(stack)
            IN  /\ (ins.argc = 1 /\ h >= 1) =>
                      IF CanRaise(stack[h]) THEN Raised(r, stack[h], None, 1)
                      ELSE TypeErrorRaised(r)
                /\ (ins.argc = 2 /\ h >= 2) =>
                      IF CauseOk(stack[h]) /\ CanRaise(stack[h - 1])
                      THEN Raised(r, stack[h - 1], stack[h], 2)
                      ELSE TypeErrorRaised(r)

\* C21: an explicit Raise pops the cause first and the exception second (argc
\* 2) or the exception only, the cause being none (argc 1); it sets __cause__
\* to the cause and __context__ to the VM's current exception, or none when the
\* register is empty; a popped exception class is replaced by a new instance of
\* it, and every other popped value that is no exception gives a type error
C21_ExplicitRaise == ExplicitRaise(LAMBDA c : CanRaise(c))

\* C21 (amended): as above, except that with argc 2 none is accepted as the
\* cause, and __cause__ is then none
C21_ExplicitRaiseNoneCause == ExplicitRaise(LAMBDA c : CanRaise(c) \/ c = None)

\* an explicit Raise has run while the register held an exception: the frame
\* has exited with a new instance of the exception class it popped
C21_Witness ==
    /\ status = "error"
    /\ lasti = 1
    /\ exceptions # <<>>
    /\ \E c \in ExceptionClasses : result = [kind |-> "Error", value |-> new_empty_exception(c)]

\* ------------------------------------------------------- unpacking
\* the stack of r counted from the top: FromTop(r, 1) is the top
FromTop(r, k) == r.f.stack[Len(r.f.stack) + 1 - k]

\* r leaves the stack as it was below `below` values, and `pushed` values on it
Below(r, below, pushed) ==
    /\ Len(r.f.stack) = Len(stack) - below + pushed
    /\ SubSeq(r.f.stack, 1, Len(stack) - below) = SubSeq(stack, 1, Len(stack) - below)

ValueErrorRaised(r) == ~r.f.panic /\ r.kind = "err" /\ r.val = ValueError /\ Below(r, 1, 0)

Succeeded(r) == ~r.f.panic /\ r.kind = "none"

\* C22: UnpackSequence(n) succeeds iff the popped value has exactly n elements,
\* and then the elements are on the stack with the first on top (net n - 1);
\* otherwise a value-error is raised and the value stays popped.
\* UnpackEx(before, after) succeeds iff the value has at least before + after
\* elements, and then the stack holds, from the top down, the first `before`
\* elements in order, one list of the middle elements, and the last `after`
\* elements in order; otherwise a value-error is raised.
C22_Unpack ==
    (Fetchable /\ stack # <<>> /\ stack[Len(stack)] \in Tuples) =>
        LET elements == elements_of[stack[Len(stack)]]
            len == Len(elements)
        IN  /\ \A ins \in UnpackSequenceIns : \A o \in Oracle(blocks) :
                   LET r == execute_instruction(Frame, ins, o)
                   IN  IF len = ins.size
                       THEN /\ Succeeded(r)
                            /\ Below(r, 1, ins.size)
                            /\ \A k \in 1 .. ins.size : FromTop(r, k) = elements[k]
                       ELSE ValueErrorRaised(r)
            /\ \A ins \in UnpackExIns : \A o \in Oracle(blocks) :
                   LET r == execute_instruction(Frame, ins, o)
                       b == ins.before
                       a == ins.after
                   IN  IF len >= b + a
                       THEN /\ Succeeded(r)
                            /\ Below(r, 1, b + 1 + a)
                            /\ \A k \in 1 .. b : FromTop(r, k) = elements[k]
                            /\ FromTop(r, b + 1) = new_list(SubSeq(elements, b + 1, len - a))
                            /\ \A k \in 1 .. a : FromTop(r, b + 1 + k) = elements[len - a + k]
                       ELSE ValueErrorRaised(r)

\* UnpackEx(1, 1) has unpacked a value of three elements: the first is on top,
\* the list of the second below it, the third below that
C22_Witness ==
    /\ status = "running"
    /\ lasti = 1
    /\ Len(stack) >= 3
    /\ \E t \in Tuples :
          /\ Len(elements_of[t]) = 3
          /\ stack[Len(stack)] = elements_of[t][1]
          /\ stack[Len(stack) - 1] = new_list(<<elements_of[t][2]>>)
          /\ stack[Len(stack) - 2] = elements_of[t][3]

\* ------------------------------------------------------------ MapAdd
SetItemCalls(r) ==
    {<<r.f.log[i].obj, r.f.log[i].arg[2], r.f.log[i].arg[3]>> : i \in Events(r.f.log, "call_method")}

\* C26: MapAdd(i) pops the value first (it is on top) and the key second, and
\* calls __setitem__(key, value) on the object that was at depth i + 1 before
\* the pops, which stays on the stack (net -2)
C26_MapAdd ==
    Fetchable =>
        \A ins \in MapAddIns : \A o \in Oracle(blocks) :
            LET r == execute_instruction(Frame, ins, o)
                h == Len(stack)
            IN  h >= ins.i + 2 =>
                    /\ ~r.f.panic
                    /\ SetItemCalls(r) = {<<stack[h - (ins.i + 1)], stack[h - 1], stack[h]>>}
                    /\ Below(r, 2, 0)

\* ------------------------------------------------- Rotate and Reverse
\* C27: on every stack of height at least n, Rotate(n) with n >= 2 moves the top
\* down n - 1 positions and keeps the order of the n - 1 values it passes;
\* Reverse(n) reverses the top n values in place; both leave the values below
\* the top n and the height unchanged
C27_RotateReverse ==
    Fetchable =>
        LET h == Len(stack)
        IN  /\ \A ins \in RotateIns : \A o \in Oracle(blocks) :
                   LET r == execute_instruction(Frame, ins, o)
                       n == ins.amount
                   IN  (n >= 2 /\ h >= n) =>
                           /\ Succeeded(r)
                           /\ Below(r, n, n)
                           /\ r.f.stack[h - n + 1] = stack[h]
                           /\ \A k \in 1 .. n - 1 : r.f.stack[h - n + 1 + k] = stack[h - n + k]
            /\ \A ins \in ReverseIns : \A o \in Oracle(blocks) :
                   LET r == execute_instruction(Frame, ins, o)
                       n == ins.amount
                   IN  h >= n =>
                           /\ Succeeded(r)
                           /\ Below(r, n, n)
                           /\ \A k \in 1 .. n : r.f.stack[h - n + k] = stack[h + 1 - k]

\* from this state, three different values on top, Rotate(3) runs
C27_Witness ==
    /\ Fetchable
    /\ Len(stack) >= 3
    /\ Cardinality({stack[Len(stack) - k] : k \in 0 .. 2}) = 3
    /\ \E ins \in RotateIns : \E o \in Oracle(blocks) :
          LET n == run_iteration(Frame, ins, o)
          IN  /\ ins.amount = 3
              /\ n.status = "running"
              /\ n.f.stack[Len(stack)] = stack[Len(stack) - 1]

\* --------------------------------------------------- fatal conditions
\* the instructions that pop a value before anything else
PopsFirst == {"Pop", "ReturnValue", "YieldValue", "YieldFrom", "SetupWith", "JumpIfTrue",
              "JumpIfFalse"}

TopKind == IF blocks = <<>> THEN "none" ELSE blocks[Len(blocks)].typ.kind

\* the instruction meets an internal error in the current state
Fatal(ins) ==
    \/ ins.op = "Raise" /\ ins.argc = 3
    \/ ins.op = "Rotate" /\ ins.amount < 2
    \/ ins.op = "PopException" /\ TopKind \notin {"none", "ExceptHandler"}
    \/ ins.op = "CleanupWith" /\ TopKind \notin {"none", "With"}
    \/ ins.op = "PopBlock" /\ blocks = <<>>
    \/ ins.op \in {"Break", "Continue"} /\ CountKind(blocks, "Loop") = 0
    \/ ins.op \in PopsFirst /\ stack = <<>>

\* C23: an instruction that meets an internal error (Raise with argc 3, Rotate
\* with an amount below 2, PopException or CleanupWith on a top block of
\* another kind, PopBlock without a block, Break or Continue without a Loop
\* block, a pop from the empty operand stack) aborts: no exception is raised,
\* none gets a traceback record or enters the register, and the run ends in the
\* abort and not in a handler, whatever blocks are on the block stack
C23_FatalAborts ==
    Fetchable =>
        \A ins \in AllInstructions : \A o \in AllInputs(ins) :
            Fatal(ins) =>
                LET r == execute_instruction(Frame, ins, o)
                    n == run_result(get_lineno(Frame), r, o, ins.op)
                IN  /\ r.f.panic
                    /\ r.kind # "err"
                    /\ n.status = "panic"
                    /\ n.exc = None
                    /\ Events(n.f.log, "traceback") = {}
                    /\ Events(n.f.log, "push_exception") = {}

\* from this state, a TryExcept block on top of the block stack, PopException
\* aborts the process
C23_Witness ==
    /\ Fetchable
    /\ TopKind = "TryExcept"
    /\ \E ins \in PopExceptionIns : \E o \in Inputs(ins) :
          run_iteration(Frame, ins, o).status = "panic"

\* ---------------------------------------------------------- SetupWith
Popped(k) == SubSeq(stack, 1, Len(stack) - k)

ExitCalls(lg) == Cardinality(Events(lg, "__exit__"))

\* C24: SetupWith pops the context manager, calls its __enter__, pushes a With
\* block whose level is the height after the pop, and pushes the result of
\* __enter__ above that level, so that popping the With block discards it; when
\* __enter__ raises, no With block is pushed and no __exit__ is called for the
\* manager: the unwinder exits only the With blocks that were there before
C24_SetupWith ==
    (Fetchable /\ stack # <<>>) =>
        \A ins \in SetupWithIns : \A o \in Inputs(ins) :
            LET r == execute_instruction(Frame, ins, o)
                n == run_result(get_lineno(Frame), r, o, ins.op)
                cm == stack[Len(stack)]
            IN  IF cm \in Managers /\ ins.enter_ok
                THEN /\ Succeeded(r)
                     /\ \A i \in Events(r.f.log, "__enter__") : r.f.log[i].obj = cm
                     /\ Cardinality(Events(r.f.log, "__enter__")) = 1
                     /\ r.f.blocks = Append(blocks, Block(With(ins.end, cm), Len(stack) - 1))
                     /\ r.f.stack = Append(Popped(1), EnterResult(cm))
                     /\ pop_block(r.f).stack = Popped(1)
                ELSE /\ ~r.f.panic
                     /\ r.kind = "err"
                     /\ r.f.blocks = blocks
                     /\ r.f.stack = Popped(1)
                     /\ ExitCalls(r.f.log) = 0
                     /\ ExitCalls(n.f.log) <= CountKind(blocks, "With")

\* from this state, values below the manager on top, SetupWith enters a With block
C24_Witness ==
    /\ Fetchable
    /\ Len(stack) >= 2
    /\ stack[Len(stack)] \in Managers
    /\ \E ins \in SetupWithIns : \E o \in Inputs(ins) :
          LET n == run_iteration(Frame, ins, o)
          IN  /\ ins.enter_ok
              /\ n.status = "running"
              /\ InBounds(n)
              /\ Len(n.f.blocks) = Len(blocks) + 1

\* -------------------------------------------------------- CleanupWith
\* C25: CleanupWith(end), the top block being a With block with that end,
\* removes the block and truncates the operand stack to its level, and only
\* then calls the manager's __exit__(None, None, None), once; when that
\* __exit__ raises, the error is unwound with the With block gone: __exit__ is
\* called for the With blocks below only, not for this manager again
C25_CleanupWith ==
    (Fetchable /\ TopKind = "With") =>
        \A ins \in CleanupWithIns : \A o \in Inputs(ins) :
            LET r == execute_instruction(Frame, ins, o)
                n == run_result(get_lineno(Frame), r, o, ins.op)
                block == blocks[Len(blocks)]
                exits == Events(r.f.log, "__exit__")
            IN  ins.end = block.typ.end =>
                    /\ ~r.f.panic
                    /\ r.f.blocks = SubSeq(blocks, 1, Len(blocks) - 1)
                    /\ r.f.stack = Truncate(stack, block.level)
                    /\ Cardinality(exits) = 1
                    /\ \A i \in exits :
                           /\ r.f.log[i].obj = block.typ.context_manager
                           /\ r.f.log[i].arg = <<None, None, None>>
                           /\ \E j \in Events(r.f.log, "pop_block") : j < i
                    /\ r.kind = IF o[Len(blocks)] = "raise" THEN "err" ELSE "none"
                    /\ r.kind = "err" =>
                           /\ r.val = ExitError
                           /\ ExitCalls(n.f.log) <= CountKind(blocks, "With")
                           /\ CountKind(blocks, "With") = 1 => ExitCalls(n.f.log) = 1

\* from this state, a With block on top and a TryExcept block below it,
\* CleanupWith calls an __exit__ that raises, and the error is caught
C25_Witness ==
    /\ Fetchable
    /\ TopKind = "With"
    /\ CountKind(blocks, "TryExcept") > 0
    /\ \E ins \in CleanupWithIns : \E o \in Inputs(ins) :
          LET n == run_iteration(Frame, ins, o)
          IN  /\ ins.end = blocks[Len(blocks)].typ.end
              /\ o[Len(blocks)] = "raise"
              /\ n.status = "running"
              /\ InBounds(n)
              /\ n.exc = ExitError

\* ----------------------------------------------------- conditional jumps
\* C28: JumpIfTrueOrPop(t) and JumpIfFalseOrPop(t) read the top value without
\* popping it: taken, the value stays and the pointer is label_map[t]; not
\* taken, the value is popped and the pointer is the next instruction; when the
\* coercion to a boolean raises, the value is still on the stack.
\* JumpIfTrue(t) and JumpIfFalse(t) pop the value in every case.
C28_ConditionalJumps ==
    (Fetchable /\ stack # <<>>) =>
        /\ \A ins \in JumpIfTrueOrPopIns \cup JumpIfFalseOrPopIns : \A o \in Inputs(ins) :
               LET r == execute_instruction(Frame, ins, o)
                   taken == ins.truth = (IF ins.op = "JumpIfTrueOrPop" THEN "true" ELSE "false")
               IN  /\ ~r.f.panic
                   /\ IF ins.truth = "raise" THEN r.kind = "err" /\ r.f.stack = stack
                      ELSE IF taken
                      THEN r.kind = "none" /\ r.f.stack = stack /\ r.f.lasti = label_map[ins.target]
                      ELSE r.kind = "none" /\ r.f.stack = Popped(1) /\ r.f.lasti = lasti + 1
        /\ \A ins \in JumpIfTrueIns \cup JumpIfFalseIns : \A o \in Inputs(ins) :
               LET r == execute_instruction(Frame, ins, o)
               IN  ~r.f.panic /\ r.f.stack = Popped(1)

\* from this state JumpIfTrueOrPop jumps on a true value and keeps it
C28_Witness ==
    /\ Fetchable
    /\ stack # <<>>
    /\ \E ins \in JumpIfTrueOrPopIns : \E o \in Inputs(ins) :
          LET n == run_iteration(Frame, ins, o)
          IN  /\ ins.truth = "true"
              /\ n.status = "running"
              /\ n.f.stack = stack
              /\ n.f.lasti = label_map[ins.target]
              /\ n.f.lasti # lasti + 1

\* ------------------------------------------------ block push and pop
MinHeight(h, level) == IF h <= level THEN h ELSE level

BlockTypes == {Loop(0, 1), TryExcept(2), With(1, "cm"), ExceptHandler}

\* C29: popping a block of level L off a stack of height h leaves the height
\* min(h, L), never more than h, and the values below that height as they were;
\* pushing a block leaves the operand stack as it was. This holds of pop_block
\* and push_block on every reachable frame and of the instructions PopBlock,
\* SetupLoop and SetupExcept.
C29_BlockPushPop ==
    /\ \A typ \in BlockTypes :
           LET g == push_block(Frame, typ)
           IN  /\ g.stack = stack
               /\ g.blocks = Append(blocks, Block(typ, Len(stack)))
    /\ blocks # <<>> =>
           LET g == pop_block(Frame)
               m == MinHeight(Len(stack), blocks[Len(blocks)].level)
           IN  /\ Len(g.stack) = m
               /\ Len(g.stack) <= Len(stack)
               /\ \A i \in 1 .. m : g.stack[i] = stack[i]
               /\ g.blocks = SubSeq(blocks, 1, Len(blocks) - 1)
    /\ Fetchable =>
           /\ \A ins \in SetupLoopIns \cup SetupExceptIns : \A o \in Inputs(ins) :
                  execute_instruction(Frame, ins, o).f.stack = stack
           /\ \A ins \in PopBlockIns : \A o \in Inputs(ins) :
                  LET r == execute_instruction(Frame, ins, o)
                  IN  blocks # <<>> =>
                          r.f.stack = SubSeq(stack, 1, MinHeight(Len(stack), blocks[Len(blocks)].level))

\* in this state PopBlock pops a block off a stack that is higher than the
\* block's level, and the stack is cut to the level
C29_Witness ==
    /\ Fetchable
    /\ blocks # <<>>
    /\ Len(stack) > blocks[Len(blocks)].level
    /\ \E ins \in PopBlockIns : \E o \in Inputs(ins) :
          LET n == run_iteration(Frame, ins, o)
          IN  n.status = "running" /\ Len(n.f.stack) = blocks[Len(blocks)].level

\* ------------------------------------------- an exception in a handler
\* the register pops the unwinder made, after what the instruction itself did
UnwinderPops(c) ==
    Cardinality(Events(c.n.f.log, "pop_exception")) - Cardinality(Events(c.r.f.log, "pop_exception"))

\* C30: an exception raised while the ExceptHandler block of a TryExcept is on
\* top of the block stack is not caught by that handler again: the unwinder
\* pops the ExceptHandler block, popping the exception register once for it,
\* and goes on with the blocks below, so a step that ends in the frame still
\* running leaves fewer blocks than there were, and a frame whose only block
\* was that handler's exits with the new exception
C30_CaughtOnce ==
    CountKind(blocks, "ExceptHandler") > 0 =>
        EveryRaised(LAMBDA c :
            (c.r.f.blocks # <<>> /\ Top(c.r.f.blocks).typ.kind = "ExceptHandler") =>
                /\ c.n.status # "panic"
                /\ UnwinderPops(c) >= 1
                /\ c.n.status = "running" => Len(c.n.f.blocks) < Len(c.r.f.blocks)
                /\ CountKind(c.r.f.blocks, "TryExcept") = 0 =>
                       Events(c.n.f.log, "push_exception") = {}
                /\ Len(c.r.f.blocks) = 1 =>
                       /\ c.n.status = "error"
                       /\ c.n.result = [kind |-> "Error", value |-> c.r.val]
                       /\ c.n.f.blocks = <<>>
                       /\ UnwinderPops(c) = 1
                       /\ c.n.f.exceptions =
                              SubSeq(c.r.f.exceptions, 1, Len(c.r.f.exceptions) - 1))

\* in this state, the frame's only block being an ExceptHandler block, an
\* instruction raises and the frame exits with that exception
C30_Witness ==
    /\ Fetchable
    /\ Len(blocks) = 1
    /\ TopKind = "ExceptHandler"
    /\ exceptions # <<>>
    /\ SomeRaised(LAMBDA c :
           /\ c.r.f.blocks = blocks
           /\ c.n.status = "error"
           /\ c.n.result.value = c.r.val
           /\ c.n.f.exceptions = <<>>)

\* ------------------------------------------ Continue keeps the stack
\* C33: with the innermost Loop block on top of the block stack, Continue
\* leaves the operand stack exactly as it was, values above the Loop's level
\* included, and pops no block; Break from the same state cuts the operand
\* stack to the Loop's level
C33_ContinueKeepsStack ==
    (Fetchable /\ TopKind = "Loop") =>
        LET level == blocks[Len(blocks)].level
        IN  /\ \A ins \in ContinueIns : \A o \in Inputs(ins) :
                   LET n == run_iteration(Frame, ins, o)
                   IN  /\ n.status = "running"
                       /\ n.f.stack = stack
                       /\ n.f.blocks = blocks
                       /\ Events(n.f.log, "pop_block") = {}
            /\ \A ins \in BreakIns : \A o \in Inputs(ins) :
                   LET n == run_iteration(Frame, ins, o)
                   IN  /\ n.status = "running"
                       /\ n.f.stack = SubSeq(stack, 1, MinHeight(Len(stack), level))
                       /\ Len(stack) > level => Len(n.f.stack) = level
                       /\ n.f.blocks = SubSeq(blocks, 1, Len(blocks) - 1)

\* in this state, values above the level of the Loop block on top, Continue
\* keeps them and Break drops them
C33_Witness ==
    /\ Fetchable
    /\ TopKind = "Loop"
    /\ Len(stack) > blocks[Len(blocks)].level
    /\ \E ins \in ContinueIns : \E o \in Inputs(ins) :
          LET n == run_iteration(Frame, ins, o)
          IN  n.status = "running" /\ n.f.stack = stack
    /\ \E ins \in BreakIns : \E o \in Inputs(ins) :
          LET n == run_iteration(Frame, ins, o)
          IN  n.status = "running" /\ Len(n.f.stack) < Len(stack)

\* ------------------------------------------- the walks come to an end
\* a walk that goes on has removed exactly the top block
OneBlockLess == blocks' = SubSeq(blocks, 1, Len(blocks) - 1)

\* C32: every unwinding walk ends when each callback returns: an iteration of
\* unwind_exception or unwind_blocks after which the walk goes on has removed
\* exactly one block, so neither takes more iterations than there are blocks;
\* unwind_loop goes on with one block less too and ends either at a Loop block
\* on top, which it leaves there, or in an abort, which is what it does when no
\* block is left; no walk goes on after an iteration that did not shorten the
\* block stack (as the one that pushes the ExceptHandler block)
C32_WalksEnd ==
    /\ [][(Walking /\ Walking') => (status' = status /\ OneBlockLess)]_vars
    /\ [][(Walking /\ Len(blocks') >= Len(blocks)) => ~Walking']_vars
    /\ [][(status = "unwind_loop" /\ ~Walking') =>
             \/ status' = "done" /\ blocks' = blocks /\ blocks # <<>>
                  /\ blocks[Len(blocks)].typ.kind = "Loop"
             \/ status' = "panic"]_vars
    /\ [][(status = "unwind_loop" /\ blocks = <<>>) => status' = "panic"]_vars
    /\ Walking ~> ~Walking

\* unwind_exception has ended at a TryExcept block: the ExceptHandler block is
\* pushed in its place, the exception is on the stack and in the register, above
\* the entry of a handler block below, and the walk is over
C32_Witness ==
    /\ status = "done"
    /\ result = [kind |-> "Walked", value |-> None]
    /\ blocks # <<>>
    /\ blocks[Len(blocks)].typ.kind = "ExceptHandler"
    /\ Len(exceptions) >= 2
    /\ exceptions[Len(exceptions)] \in Raisable
    /\ stack # <<>>
    /\ stack[Len(stack)] = exceptions[Len(exceptions)]

\* ----------------------------------------- the register of two frames
TwoInstructions ==
    SetupExceptIns \cup LoadNameIns \cup JumpIns \cup YieldValueIns \cup PopExceptionIns

\* C31: whichever way the two frames are driven in turn, each pop_exception a
\* frame performs removes an entry of the register that the same frame pushed
\* when it entered its handler
C31_PopsOwnException ==
    Fetchable =>
        \A ins \in TwoInstructions : \A o \in Inputs(ins) :
            LET n == run_iteration(Frame, ins, o)
            IN  n.status # "panic" =>
                    Replay(generators.owners, TRUE, n.f.log, generators.current).ok

====
